---- MODULE Spec2Model ----
(***************************************************************************)
(* Job coordination layer of the site-suitability analyser:                *)
(* process_map_task (backend/app/gis/processor.py), the DB-backed          *)
(* MapTaskMonitor, SiteSuitabilityEngine.run / process_district            *)
(* (backend/app/gis/engine.py) and the external cancel / delete requests   *)
(* of backend/app/crud.py, all acting on one persisted map task.           *)
(***************************************************************************)
EXTENDS Integers, Sequences, FiniteSets, TLC

VARIABLES
    task,        \* the t_map_task row: exists, status, error_msg, started_at, ended_at
    cfg,         \* immutable columns of the row: user_id, district, stored factor JSON
    progress,    \* t_map_task_progress rows of the task, in insertion order
    files,       \* t_map_task_files rows of the task, in insertion order
    bucket,      \* keys of the objects held by object storage
    pc,          \* position of each process_map_task invocation
    loc,         \* local variables of each invocation
    clock,       \* value the next datetime.now() returns
    procs,       \* background invocations scheduled for the task
    calc,        \* request or raster computation in hand, with its inputs and results
    nCancel,     \* cancel requests issued so far
    nDbFail,     \* monitor inserts that failed so far
    nRuns,       \* process_map_task invocations started so far
    hist         \* observations of the last step taken (for the properties)

vars == <<task, cfg, progress, files, bucket, pc, loc, clock, procs, calc,
          nCancel, nDbFail, nRuns, hist>>

----------------------------------------------------------------------------
\* Bounds of the model

MaxCancel == 2
MaxDbFail == 1
MaxRuns == 2

----------------------------------------------------------------------------
\* MapTaskStatus (IntEnum)

PENDING == 1
PROCESSING == 2
SUCCESS == 3
FAILURE == 4
CANCELLED == 5

\* Optional values: None is the empty sequence, a value x is <<x>>
None == <<>>
Some(x) == <<x>>

\* Python's `a or b` on an optional
OrElse(a, b) == IF a = None THEN b ELSE a

----------------------------------------------------------------------------
\* Strings are sequences of one-character strings

Chars(n, c) == [i \in 1..n |-> c]

RECURSIVE lstrip(_)
lstrip(s) == IF s # <<>> /\ Head(s) = " " THEN lstrip(Tail(s)) ELSE s

RECURSIVE rstrip(_)
rstrip(s) == IF s # <<>> /\ s[Len(s)] = " " THEN rstrip(SubSeq(s, 1, Len(s) - 1)) ELSE s

\* str.strip()
strip(s) == rstrip(lstrip(s))

\* processor.py: truncate the exception text to fit the column
MaxErrLen == 250
KeepErrLen == 247

truncate_msg_cut250(msg) ==
    IF Len(msg) > MaxErrLen THEN SubSeq(msg, 1, MaxErrLen) ELSE msg

truncate_msg(msg) ==
    IF Len(msg) > MaxErrLen
    THEN SubSeq(msg, 1, KeepErrLen) \o <<".", ".", ".">>
    ELSE msg

\* bounds of a Reclassify rule: a finite number, float('-inf') or float('inf')
Fin(n) == [inf |-> 0, v |-> n]
NegInf == [inf |-> -1, v |-> 0]
PosInf == [inf |-> 1, v |-> 0]

\* a <= b and a < b on such bounds
BLeq(a, b) ==
    \/ a.inf < b.inf
    \/ a.inf = b.inf /\ (a.inf # 0 \/ a.v <= b.v)

BLt(a, b) ==
    \/ a.inf < b.inf
    \/ a.inf = 0 /\ b.inf = 0 /\ a.v < b.v

----------------------------------------------------------------------------
\* Task store

Terminal == {SUCCESS, FAILURE, CANCELLED}

\* _load_task: the row, or None when it does not exist
_load_task(t) == IF t.exists THEN Some(t) ELSE None

\* _quick_update_task: set the given columns of the row; nothing when the row is missing
_quick_update_task(t, fields) ==
    IF ~t.exists THEN t
    ELSE [f \in DOMAIN t |-> IF f \in DOMAIN fields THEN fields[f] ELSE t[f]]

\* crud.cancel_map_task: None when the row is missing; otherwise flips the
\* status unless it is SUCCESS or CANCELLED, keeping an ended_at already set
cancel_guard(t) == t.status \notin {SUCCESS, CANCELLED}

cancel_map_task(t, now) ==
    IF ~t.exists THEN t
    ELSE IF cancel_guard(t)
         THEN [t EXCEPT !.status = CANCELLED, !.ended_at = OrElse(t.ended_at, Some(now))]
         ELSE t

\* crud.delete_map_task refuses a task that is still Pending or Processing
delete_allowed(t) == t.exists /\ t.status \notin {PENDING, PROCESSING}

----------------------------------------------------------------------------
\* MapTaskMonitor

_clamp_percent(v) == IF v < 0 THEN 0 ELSE IF v > 100 THEN 100 ELSE v

ProgressRow(uid, percent, phase, description, error_msg) ==
    [user_id |-> uid, percent |-> percent, phase |-> phase,
     description |-> description, error_msg |-> error_msg]

\* is_cancelled: one read of the row per call
is_cancelled_missing_false(t) == t.exists /\ t.status = CANCELLED

is_cancelled(t) == IF ~t.exists THEN TRUE ELSE t.status = CANCELLED

\* update_progress: insert one row; ok = FALSE is an insert that fails.
\* The result tells the rows afterwards and whether the call raised.
update_progress_raising(log, uid, percent, phase, description, ok) ==
    [log |-> IF ok
             THEN Append(log, ProgressRow(uid, _clamp_percent(percent), phase, description, None))
             ELSE log,
     raised |-> ~ok]

update_progress_overwrite(log, uid, percent, phase, description, ok) ==
    [log |-> IF ok
             THEN IF log = <<>>
                  THEN <<ProgressRow(uid, _clamp_percent(percent), phase, description, None)>>
                  ELSE [log EXCEPT ![Len(log)] =
                          ProgressRow(uid, _clamp_percent(percent), phase, description, None)]
             ELSE log,
     raised |-> FALSE]

update_progress(log, uid, percent, phase, description, ok) ==
    [log |-> IF ok
             THEN Append(log, ProgressRow(uid, _clamp_percent(percent), phase, description, None))
             ELSE log,
     raised |-> FALSE]

\* record_error: the stored message is the stripped text, "Error" when that is empty
ErrorText == <<"E", "r", "r", "o", "r">>

record_error(log, uid, error_msg, phase, percent, description, ok) ==
    LET msg == IF strip(error_msg) = <<>> THEN ErrorText ELSE strip(error_msg)
        p == IF percent = None THEN 0 ELSE _clamp_percent(percent[1])
    IN [log |-> IF ok
                THEN Append(log, ProgressRow(uid, p, phase, description, Some(msg)))
                ELSE log,
        raised |-> FALSE]

\* storage.save_task_file: the key an upload of src_path gets
save_task_file(src_path, uid) == <<"outputs", uid, src_path>>

\* record_file: insert one t_map_task_files row holding the path it was given
FileRow(uid, file_type, file_path) ==
    [user_id |-> uid, file_type |-> file_type, file_path |-> file_path]

record_file(rows, uid, file_type, file_path, ok) ==
    [rows |-> IF ok THEN Append(rows, FileRow(uid, file_type, file_path)) ELSE rows,
     raised |-> FALSE]

----------------------------------------------------------------------------
\* Factor catalog and configuration (engine.py)

\* all_factors: the steps each catalog kind carries, in catalog order
all_factors ==
    << [name |-> "rivers",      method_restricted_zone |-> "_create_restricted_area", method_evaluate |-> "none"],
       [name |-> "lakes",       method_restricted_zone |-> "_create_restricted_area", method_evaluate |-> "none"],
       [name |-> "coastlines",  method_restricted_zone |-> "_create_restricted_area", method_evaluate |-> "none"],
       [name |-> "residential", method_restricted_zone |-> "_create_restricted_area", method_evaluate |-> "none"],
       [name |-> "slope",       method_restricted_zone |-> "none", method_evaluate |-> "_evaluate_slope"],
       [name |-> "roads",       method_restricted_zone |-> "none", method_evaluate |-> "_evaluate_distance_vector"],
       [name |-> "powerlines",  method_restricted_zone |-> "none", method_evaluate |-> "_evaluate_distance_vector"],
       [name |-> "solar",       method_restricted_zone |-> "none", method_evaluate |-> "_evaluate_radiation"],
       [name |-> "temperature", method_restricted_zone |-> "none", method_evaluate |-> "_evaluate_temperature"] >>

CatalogNames == {all_factors[k].name : k \in DOMAIN all_factors}

CatalogEntry(kind) == CHOOSE f \in {all_factors[k] : k \in DOMAIN all_factors} : f.name = kind

\* the kinds of a FactorSpec list that the catalog knows, in list order
RECURSIVE KnownKinds(_)
KnownKinds(specs) ==
    IF specs = <<>> THEN <<>>
    ELSE IF Head(specs).kind \in CatalogNames
         THEN <<Head(specs).kind>> \o KnownKinds(Tail(specs))
         ELSE KnownKinds(Tail(specs))

\* _initialize_factors: self.factors, restricted factors first, then suitability factors
_initialize_factors_suitability_first(configs) ==
    KnownKinds(configs.suitability_factors) \o KnownKinds(configs.restricted_factors)

_initialize_factors(configs) ==
    KnownKinds(configs.restricted_factors) \o KnownKinds(configs.suitability_factors)

\* json.loads of a stored factor column, [] when the text does not parse
json_loads_lenient(text) == text.value

json_loads_or_empty(text) == IF text.valid THEN text.value ELSE <<>>

\* dict.get: the value under a key of a parsed JSON object, None when it is absent
Get(d, key) == IF key \in DOMAIN d THEN Some(d[key]) ELSE None

\* lines 171-178: one RestrictedFactor per parsed constraint factor; an entry
\* whose conversion raises is skipped
RECURSIVE restricted_of(_)
restricted_of(cfs) ==
    IF cfs = <<>> THEN <<>>
    ELSE LET cf == Head(cfs)
             value == Get(cf, "value")
         IN IF Get(cf, "kind") = None
            THEN restricted_of(Tail(cfs))
            ELSE <<[kind |-> cf.kind,
                    buffer_distance |-> IF value = None THEN 0 ELSE value[1]]>>
                 \o restricted_of(Tail(cfs))

\* lines 186-188: the (start, end, points) triples under the key "ranges"
ranges_of(sf) ==
    LET src == OrElse(Get(sf, "ranges"), Some(<<>>))[1]
    IN [k \in DOMAIN src |-> <<Fin(src[k].start), Fin(src[k].end), src[k].points>>]

\* lines 180-195: one SuitabilityFactor per parsed scoring factor, with ranges None
\* when the list of triples is empty; an entry whose conversion raises is skipped
RECURSIVE suitables_of(_)
suitables_of(sfs) ==
    IF sfs = <<>> THEN <<>>
    ELSE LET sf == Head(sfs) IN
         IF Get(sf, "kind") = None \/ Get(sf, "weight") = None
         THEN suitables_of(Tail(sfs))
         ELSE <<[kind |-> sf.kind, weight |-> sf.weight,
                 ranges |-> IF ranges_of(sf) = <<>> THEN None ELSE Some(ranges_of(sf))]>>
              \o suitables_of(Tail(sfs))

\* EngineConfigs built from the stored columns of the row
build_configs(c) ==
    [restricted_factors |-> restricted_of(json_loads_or_empty(c.constraint_factors)),
     suitability_factors |-> suitables_of(json_loads_or_empty(c.suitability_factors))]

\* the catalog's buffer_distance, score_weight (in tenths) and evaluate_rules
default_buffer_distance(kind) ==
    CASE kind \in {"rivers", "lakes", "coastlines"} -> Some(500)
      [] kind = "residential" -> Some(1000)
      [] OTHER -> None

default_score_weight(kind) ==
    CASE kind \in {"slope", "roads"} -> Some(15)
      [] kind = "powerlines" -> Some(20)
      [] kind = "solar" -> Some(40)
      [] kind = "temperature" -> Some(10)
      [] OTHER -> None

default_evaluate_rules(kind) ==
    CASE kind = "slope" ->
           Some(<< <<Fin(0), Fin(5), 10>>, <<Fin(5), Fin(10), 8>>,
                   <<Fin(10), Fin(15), 5>>, <<Fin(15), Fin(90), 2>> >>)
      [] kind \in {"roads", "powerlines"} ->
           Some(<< <<Fin(0), Fin(1000), 10>>, <<Fin(1000), Fin(2000), 8>>,
                   <<Fin(2000), Fin(3000), 5>>, <<Fin(3000), PosInf, 2>> >>)
      [] kind = "solar" ->
           Some(<< <<Fin(115), Fin(125), 2>>, <<Fin(125), Fin(135), 4>>,
                   <<Fin(135), Fin(140), 6>>, <<Fin(140), Fin(145), 8>>,
                   <<Fin(145), Fin(150), 9>>, <<Fin(150), Fin(155), 10>> >>)
      [] kind = "temperature" ->
           Some(<< <<Fin(-70), Fin(0), 2>>, <<Fin(0), Fin(50), 5>>,
                   <<Fin(50), Fin(120), 10>>, <<Fin(120), Fin(140), 7>>,
                   <<Fin(140), Fin(165), 3>> >>)
      [] OTHER -> None

\* the value the loops of _initialize_factors leave under a key of the catalog
\* entry of `kind`: that of the last factor of the kind that sets it
Overlay(specs, kind, field, default) ==
    LET idx == {k \in DOMAIN specs : specs[k].kind = kind /\ specs[k][field] # None}
    IN IF idx = {} THEN default
       ELSE specs[CHOOSE k \in idx : \A j \in idx : j <= k][field]

\* self.factors with the values the engine uses: the catalog entries of the
\* configured kinds, overlaid with buffer distance, weight and (when given) ranges
resolved_factors(configs) ==
    LET names == _initialize_factors(configs)
        rf == [k \in DOMAIN configs.restricted_factors |->
                 [kind |-> configs.restricted_factors[k].kind,
                  buffer_distance |-> Some(configs.restricted_factors[k].buffer_distance)]]
        sf == [k \in DOMAIN configs.suitability_factors |->
                 [kind |-> configs.suitability_factors[k].kind,
                  weight |-> Some(configs.suitability_factors[k].weight),
                  ranges |-> configs.suitability_factors[k].ranges]]
    IN [k \in DOMAIN names |->
          [name |-> names[k],
           buffer_distance |->
               Overlay(rf, names[k], "buffer_distance", default_buffer_distance(names[k])),
           score_weight |-> Overlay(sf, names[k], "weight", default_score_weight(names[k])),
           evaluate_rules |->
               Overlay(sf, names[k], "ranges", default_evaluate_rules(names[k]))]]

\* process_district lines 413-427: the factors whose evaluate step yields a score
\* raster, in the order the loop over self.factors evaluates them
evaluated_factors(factors) ==
    SelectSeq(factors, LAMBDA f : CatalogEntry(f.name).method_evaluate # "none")

\* consts.districts: the district codes the engine knows
districts == {"001", "002"}

\* paths of the rasters the engine writes into its output directory
ScorePath(name) == <<"score", name>>
RestrictedMaskPath == <<"zone_restricted", "tif">>
WeightedPath == <<"zone_weighted", "tif">>
MaskedPath == <<"zone_masked", "tif">>

\* the scratch output directory of the task: OUTPUT_DATA_DIR/engine/task-<id>
TaskOutPath == <<"engine", "task">>

\* a primitive operation (functions.py) run on behalf of a factor or of the district
Op(name, of) == [op |-> name, of |-> of]

\* _clip_data: rasters (.tif) are extracted by mask, vectors (.shp) are clipped
RasterDatasets == {"slope", "solar", "temperature"}

PrepareOps(kind) ==
    IF kind \in RasterDatasets THEN <<Op("ExtractByMask", kind)>> ELSE <<Op("Clip", kind)>>

\* _create_restricted_area: buffer, then clip to the boundary
RestrictOps(kind) == <<Op("Buffer", kind), Op("Clip", kind)>>

\* the evaluate methods: proximity factors rasterize, measure distance and reclassify;
\* the others reclassify their prepared raster
EvaluateOps(kind) ==
    IF CatalogEntry(kind).method_evaluate = "_evaluate_distance_vector"
    THEN <<Op("RasterizePolygon", kind), Op("DistanceAccumulation", kind), Op("Reclassify", kind)>>
    ELSE <<Op("Reclassify", kind)>>

\* lines 368-372: the prepare calls of the loop over self.factors, in order
prepare_calls(factors) == [k \in DOMAIN factors |-> factors[k].name]

\* lines 385-391: the zones the loop over self.factors collects, in order
restricted_zones(factors) ==
    LET zf == SelectSeq(factors, LAMBDA f :
                  CatalogEntry(f.name).method_restricted_zone = "_create_restricted_area")
    IN [k \in DOMAIN zf |-> zf[k].name]

\* lines 437-443: the (score raster, weight) pairs handed to RPL_Combine_rasters
weighted_rasters(factors) ==
    LET ev == SelectSeq(evaluated_factors(factors), LAMBDA f : f.score_weight # None)
    IN [k \in DOMAIN ev |-> <<ScorePath(ev[k].name), ev[k].score_weight[1]>>]

----------------------------------------------------------------------------
\* Inputs of the model

Json(v) == [valid |-> TRUE, value |-> v]

\* a stored text that json.loads rejects; v is the list its readable part spells
Corrupt(v) == [valid |-> FALSE, value |-> v]

\* stored factors: weights in tenths, breakpoints and points as the request gave them
Rivers == [kind |-> "rivers", value |-> 500]
Slope == [kind |-> "slope", weight |-> 15, breakpoints |-> <<5, 10>>, points |-> <<10, 5, 2>>]
Solar == [kind |-> "solar", weight |-> 40, breakpoints |-> <<125, 140>>, points |-> <<2, 6, 10>>]
Roads == [kind |-> "roads", weight |-> 15, breakpoints |-> <<1000>>, points |-> <<10, 2>>]

\* task rows as create_map_task stores them
Configs ==
    { [user_id |-> 7, district |-> "001",
       constraint_factors |-> Json(<<Rivers>>), suitability_factors |-> Json(<<Slope>>)],
      [user_id |-> 7, district |-> "001",
       constraint_factors |-> Json(<<>>), suitability_factors |-> Json(<<Slope, Solar>>)],
      [user_id |-> 7, district |-> "001",
       constraint_factors |-> Json(<<Rivers>>), suitability_factors |-> Json(<<>>)],
      [user_id |-> 7, district |-> "999",
       constraint_factors |-> Json(<<>>), suitability_factors |-> Json(<<Slope>>)],
      [user_id |-> 7, district |-> "001",
       constraint_factors |-> Json(<<>>), suitability_factors |-> Json(<<Slope, Roads>>)],
      [user_id |-> 7, district |-> "001",
       constraint_factors |-> Json(<<Rivers>>), suitability_factors |-> Json(<<Slope, Roads>>)],
      [user_id |-> 7, district |-> "001",
       constraint_factors |-> Json(<<>>), suitability_factors |-> Json(<<>>)] }

\* texts of the exceptions a primitive operation or the file system raises
ErrMsgs ==
    { <<>>,
      <<"b", "o", "o", "m">>,
      <<" ", "x", " ">>,
      Chars(MaxErrLen, "a"),
      Chars(MaxErrLen + 1, "a") }

\* str(e) of the AttributeError raised by `task.user_id` on a missing row
NoneTypeMsg == <<"'", "N", "o", "n", "e", "T", "y", "p", "e", "'", " ", "o", "b", "j", "e", "c", "t", " ", "h", "a", "s", " ", "n", "o", " ", "a", "t", "t", "r", "i", "b", "u", "t", "e", " ", "'", "u", "s", "e", "r", "_", "i", "d", "'">>

\* str(e) of the KeyError raised by prepared_data["slope"]
KeyErrorSlopeMsg == <<"'", "s", "l", "o", "p", "e", "'">>

\* str(e) of the exception run() raises when no district matches
NoDistrictsMsg == <<"N", "o", " ", "d", "i", "s", "t", "r", "i", "c", "t", "s", " ", "f", "o", "u", "n", "d", " ", "f", "o", "r", " ", "t", "h", "e", " ", "p", "r", "o", "v", "i", "d", "e", "d", " ", "c", "o", "d", "e", "s">>

----------------------------------------------------------------------------
\* State after create_map_task has stored the row and scheduled process_map_task

Procs == {1, 2}

InitLoc ==
    [started_at |-> None, user_id |-> 0, district |-> "", factors |-> <<>>,
     i |-> 1, prepared |-> {}, zones |-> <<>>, mask |-> FALSE, scores |-> <<>>,
     cur |-> "", result |-> None, exc |-> <<>>, msg |-> <<>>, engine |-> FALSE,
     returned |-> FALSE, checked |-> None, calls |-> <<>>, ops |-> <<>>,
     writes |-> <<>>, task_out |-> None, rmtree_calls |-> 0,
     template_raster |-> None]

\* no request or raster computation in hand
NoCalc == [fn |-> "none"]

NoHist == [op |-> "init", p |-> 0, cancelled |-> None, wfail |-> FALSE, flipped |-> FALSE]

InitCommon ==
    /\ task = [exists |-> TRUE, status |-> PENDING, error_msg |-> None,
               started_at |-> None, ended_at |-> None]
    /\ cfg \in Configs
    /\ progress = <<>>
    /\ files = <<>>
    /\ bucket = {}
    /\ pc = [p \in Procs |-> "idle"]
    /\ loc = [p \in Procs |-> InitLoc]
    /\ clock = 1
    /\ nCancel = 0
    /\ nDbFail = 0
    /\ nRuns = 0
    /\ hist = NoHist
    /\ calc = NoCalc

Init == InitCommon /\ procs = {1}

----------------------------------------------------------------------------
\* Helpers of the actions

Goto(p, l) == pc' = [pc EXCEPT ![p] = l]

\* the labels of an engine run that lie after its first and before its last checkpoint
BetweenCheckpoints ==
    {"pd_chk", "select", "progress_boundary", "prepare", "prepare_chk", "template",
     "restrict", "restrict_chk", "union", "progress_restrict", "record_restricted",
     "evaluate", "record_score", "evaluate_chk", "progress_score", "combine",
     "record_weighted", "apply_mask", "progress_combine", "record_final", "run_post_chk"}

\* what the step taken leaves for the properties to observe: the operation, its
\* invocation, the result of an is_cancelled call, whether a monitor insert failed,
\* and whether a cancel request has flipped the status during the current engine run
H(op, p) == [op |-> op, p |-> p, cancelled |-> None, wfail |-> FALSE,
             flipped |-> hist.flipped]

\* an exception with text m reaches the except clause of process_map_task
Raise(p, m) ==
    /\ pc' = [pc EXCEPT ![p] = "except"]
    /\ loc' = [loc EXCEPT ![p].exc = m]

\* outcomes of one insert of the monitor: it succeeds, or (a bounded number of times) fails
OkChoices == IF nDbFail < MaxDbFail THEN BOOLEAN ELSE {TRUE}

CountFail(ok) == nDbFail' = IF ok THEN nDbFail ELSE nDbFail + 1

----------------------------------------------------------------------------
\* process_map_task, up to the construction of the engine

\* the background runner starts an invocation
Invoke(p) ==
    /\ p \in procs
    /\ pc[p] \in {"idle", "done"}
    /\ nRuns < MaxRuns
    /\ nRuns' = nRuns + 1
    /\ pc' = [pc EXCEPT ![p] = "load"]
    /\ loc' = [loc EXCEPT ![p] = InitLoc]
    /\ hist' = [H("invoke", p) EXCEPT !.flipped = FALSE]
    /\ UNCHANGED <<task, cfg, progress, files, bucket, clock, procs, calc, nCancel, nDbFail>>

\* terminal-state guard
guard_skips_no_failure(t) == t.status \in {SUCCESS, CANCELLED}

guard_skips_processing(t) == t.status \in {PROCESSING, SUCCESS, FAILURE, CANCELLED}

guard_skips(t) == t.status \in {SUCCESS, FAILURE, CANCELLED}

\* lines 134-141: load the row; return when it is missing or terminal
Load(p) ==
    /\ pc[p] = "load"
    /\ LET t == _load_task(task) IN
         IF t = None \/ (t # None /\ guard_skips(t[1]))
         THEN Goto(p, "done") /\ loc' = loc
         ELSE Goto(p, "mark_processing")
              /\ loc' = [loc EXCEPT ![p].started_at = t[1].started_at]
    /\ hist' = H("load", p)
    /\ UNCHANGED <<task, cfg, progress, files, bucket, clock, procs, calc, nCancel, nDbFail, nRuns>>

\* lines 144-149: mark PROCESSING, set started_at if unset, clear error_msg
MarkProcessing(p) ==
    /\ pc[p] = "mark_processing"
    /\ task' = _quick_update_task(task,
                  [status |-> PROCESSING,
                   started_at |-> OrElse(loc[p].started_at, Some(clock)),
                   error_msg |-> None])
    /\ clock' = IF loc[p].started_at = None THEN clock + 1 ELSE clock
    /\ Goto(p, "reload")
    /\ loc' = [loc EXCEPT ![p].writes = Append(@, PROCESSING)]
    /\ hist' = H("mark_processing", p)
    /\ UNCHANGED <<cfg, progress, files, bucket, procs, calc, nCancel, nDbFail, nRuns>>

Reload_no_recheck(p) ==
    /\ pc[p] = "reload"
    /\ LET t == _load_task(task) IN
         IF t = None
         THEN Raise(p, NoneTypeMsg)
         ELSE \/ /\ Goto(p, "progress_init")
                 /\ loc' = [loc EXCEPT ![p].user_id = cfg.user_id,
                                       ![p].district = cfg.district,
                                       ![p].factors = _initialize_factors(build_configs(cfg)),
                                       ![p].task_out = Some(TaskOutPath),
                                       ![p].engine = TRUE]
              \/ \E m \in ErrMsgs :
                   /\ pc' = [pc EXCEPT ![p] = "except"]
                   /\ loc' = [loc EXCEPT ![p].user_id = cfg.user_id,
                                         ![p].task_out = Some(TaskOutPath),
                                         ![p].exc = m]
    /\ hist' = H("reload", p)
    /\ UNCHANGED <<task, cfg, progress, files, bucket, clock, procs, calc, nCancel, nDbFail, nRuns>>

\* lines 153-206: re-read the row; return when it is now CANCELLED; otherwise
\* build the EngineConfigs, make the output directory and construct the engine
\* (mkdir and the constructor may raise, with task_out already assigned)
Reload(p) ==
    /\ pc[p] = "reload"
    /\ LET t == _load_task(task) IN
         IF t = None
         THEN Raise(p, NoneTypeMsg)
         ELSE IF t[1].status = CANCELLED
              THEN Goto(p, "done") /\ loc' = [loc EXCEPT ![p].user_id = cfg.user_id]
              ELSE \/ /\ Goto(p, "progress_init")
                      /\ loc' = [loc EXCEPT ![p].user_id = cfg.user_id,
                                            ![p].district = cfg.district,
                                            ![p].factors = _initialize_factors(build_configs(cfg)),
                                            ![p].task_out = Some(TaskOutPath),
                                            ![p].engine = TRUE]
                   \/ \E m \in ErrMsgs :
                        /\ pc' = [pc EXCEPT ![p] = "except"]
                        /\ loc' = [loc EXCEPT ![p].user_id = cfg.user_id,
                                              ![p].task_out = Some(TaskOutPath),
                                              ![p].exc = m]
    /\ hist' = H("reload", p)
    /\ UNCHANGED <<task, cfg, progress, files, bucket, clock, procs, calc, nCancel, nDbFail, nRuns>>

----------------------------------------------------------------------------
\* External requests (crud.py)

\* a cancel request of the owner
Cancel ==
    /\ nCancel < MaxCancel
    /\ nCancel' = nCancel + 1
    /\ task' = cancel_map_task(task, clock)
    /\ clock' = IF task'.ended_at # task.ended_at THEN clock + 1 ELSE clock
    /\ hist' = [H("cancel", 0) EXCEPT !.flipped =
                   @ \/ (/\ task.exists /\ task.status # CANCELLED
                         /\ task'.status = CANCELLED
                         /\ \E p \in procs : pc[p] \in BetweenCheckpoints)]
    /\ UNCHANGED <<cfg, progress, files, bucket, pc, loc, procs, calc, nDbFail, nRuns>>

\* rows of the owner, as the WHERE clause of the delete statements selects them
RowsOfOthers(rows, uid) == SelectSeq(rows, LAMBDA r : r.user_id # uid)

\* a delete request of the owner: refused while the task is Pending or Processing;
\* otherwise removes the stored objects, the file and progress rows and the task row
Delete ==
    /\ task.exists
    /\ IF delete_allowed(task)
       THEN /\ bucket' = bucket \ {files[k].file_path : k \in DOMAIN files}
            /\ files' = RowsOfOthers(files, cfg.user_id)
            /\ progress' = RowsOfOthers(progress, cfg.user_id)
            /\ task' = [task EXCEPT !.exists = FALSE]
            /\ hist' = H("delete", 0)
       ELSE /\ UNCHANGED <<bucket, files, progress, task>>
            /\ hist' = H("delete_refused", 0)
    /\ UNCHANGED <<cfg, pc, loc, clock, procs, calc, nCancel, nDbFail, nRuns>>

----------------------------------------------------------------------------
\* Steps shared by the actions of the engine run

Rest == <<cfg, bucket, clock, procs, calc, nCancel, nRuns>>

\* one update_progress call at label `at`, continuing at `next`
ProgressStep(p, at, percent, phase, description, next) ==
    /\ pc[p] = at
    /\ \E ok \in OkChoices :
         LET r == update_progress(progress, loc[p].user_id, percent, phase, description, ok) IN
           /\ progress' = r.log
           /\ CountFail(ok)
           /\ IF r.raised
              THEN /\ pc' = [pc EXCEPT ![p] = "except"]
                   /\ loc' = [loc EXCEPT ![p].exc = <<"D", "B">>]
              ELSE /\ Goto(p, next)
                   /\ loc' = [loc EXCEPT ![p].calls =
                                Append(@, [percent |-> percent, phase |-> phase, ok |-> ok])]
           /\ hist' = [H(at, p) EXCEPT !.wfail = ~ok]
    /\ UNCHANGED <<task, files>>
    /\ UNCHANGED Rest

\* one record_file call at label `at`, continuing at `next`
FileStep(p, at, file_type, file_path, next) ==
    /\ pc[p] = at
    /\ \E ok \in OkChoices :
         LET r == record_file(files, loc[p].user_id, file_type, file_path, ok) IN
           /\ files' = r.rows
           /\ CountFail(ok)
           /\ IF r.raised
              THEN Raise(p, <<"D", "B">>)
              ELSE Goto(p, next) /\ loc' = loc
           /\ hist' = [H(at, p) EXCEPT !.wfail = ~ok]
    /\ UNCHANGED <<task, progress>>
    /\ UNCHANGED Rest

\* one is_cancelled call at label `at`: `yes` when it returns True, else `no`
CheckStep(p, at, yes, no) ==
    /\ pc[p] = at
    /\ LET c == is_cancelled(task) IN
         /\ Goto(p, IF c THEN yes ELSE no)
         /\ hist' = [H(at, p) EXCEPT !.cancelled = Some(c)]
    /\ UNCHANGED <<task, progress, files, nDbFail, loc>>
    /\ UNCHANGED Rest

\* a primitive operation at label `at`: it completes and the run continues at
\* `next` with locals `l`, or it raises
PrimitiveStep(p, at, next, l) ==
    /\ pc[p] = at
    /\ \/ Goto(p, next) /\ loc' = [loc EXCEPT ![p] = l]
       \/ \E m \in ErrMsgs : Raise(p, m)
    /\ hist' = H(at, p)
    /\ UNCHANGED <<task, progress, files, nDbFail>>
    /\ UNCHANGED Rest

\* a step without primitive operation, continuing at `next` with locals `l`
LocalStep(p, at, next, l) ==
    /\ pc[p] = at
    /\ Goto(p, next)
    /\ loc' = [loc EXCEPT ![p] = l]
    /\ hist' = H(at, p)
    /\ UNCHANGED <<task, progress, files, nDbFail>>
    /\ UNCHANGED Rest

----------------------------------------------------------------------------
\* process_map_task lines 208-210 and SiteSuitabilityEngine.run

\* processor.py line 209
ProgressInit(p) == ProgressStep(p, "progress_init", 0, "init", "Starting", "run_districts")

\* engine.py lines 476-483: the districts to process; none is an error
RunDistricts(p) ==
    /\ pc[p] = "run_districts"
    /\ IF loc[p].district \in districts
       THEN Goto(p, "run_chk") /\ loc' = loc
       ELSE Raise(p, NoDistrictsMsg)
    /\ hist' = H("run_districts", p)
    /\ UNCHANGED <<task, progress, files, nDbFail>>
    /\ UNCHANGED Rest

\* engine.py lines 486-488
RunChk(p) == CheckStep(p, "run_chk", "run_return", "pd_chk")

\* engine.py lines 489-492: after process_district returned
RunPostChk(p) == CheckStep(p, "run_post_chk", "run_return", "progress_finished")

\* engine.py line 493
ProgressFinished(p) ==
    ProgressStep(p, "progress_finished", 100, "success", "Finished processing", "run_return")

\* engine.py line 498: run returns its results to process_map_task
RunReturn(p) ==
    /\ pc[p] = "run_return"
    /\ LocalStep(p, "run_return", "final_chk", [loc[p] EXCEPT !.returned = TRUE])

----------------------------------------------------------------------------
\* SiteSuitabilityEngine.process_district

\* lines 348-350
PdChk(p) == CheckStep(p, "pd_chk", "run_post_chk", "select")

\* lines 353-361: select the district boundary
Select(p) ==
    PrimitiveStep(p, "select", "progress_boundary",
                  [loc[p] EXCEPT !.i = 1, !.prepared = {}, !.zones = <<>>,
                                 !.mask = FALSE, !.scores = <<>>, !.result = None,
                                 !.ops = <<Op("Select", "district")>>])

\* line 363
ProgressBoundary(p) ==
    ProgressStep(p, "progress_boundary", 10, "district", "Boundary prepared", "prepare")

\* lines 369-372: prepare the next factor, or leave the loop
Prepare(p) ==
    /\ pc[p] = "prepare"
    /\ IF loc[p].i > Len(loc[p].factors)
       THEN LocalStep(p, "prepare", "template", [loc[p] EXCEPT !.i = 1])
       ELSE PrimitiveStep(p, "prepare", "prepare_chk",
                [loc[p] EXCEPT !.prepared = @ \cup {loc[p].factors[loc[p].i]},
                               !.ops = @ \o PrepareOps(loc[p].factors[loc[p].i]),
                               !.i = @ + 1])

PrepareChk_ignored(p) == CheckStep(p, "prepare_chk", "prepare", "prepare")

\* lines 373-375
PrepareChk(p) == CheckStep(p, "prepare_chk", "run_post_chk", "prepare")

\* line 377: the template raster is the prepared slope raster
Template(p) ==
    /\ pc[p] = "template"
    /\ IF "slope" \in loc[p].prepared
       THEN Goto(p, "restrict") /\ loc' = [loc EXCEPT ![p].template_raster = Some("slope")]
       ELSE Raise(p, KeyErrorSlopeMsg)
    /\ hist' = H("template", p)
    /\ UNCHANGED <<task, progress, files, nDbFail>>
    /\ UNCHANGED Rest

\* lines 386-391: restricted zone of the next factor, or leave the loop
Restrict(p) ==
    /\ pc[p] = "restrict"
    /\ IF loc[p].i > Len(loc[p].factors)
       THEN LocalStep(p, "restrict", IF loc[p].zones # <<>> THEN "union" ELSE "evaluate",
                      [loc[p] EXCEPT !.i = 1])
       ELSE LET name == loc[p].factors[loc[p].i] IN
            IF CatalogEntry(name).method_restricted_zone = "_create_restricted_area"
            THEN PrimitiveStep(p, "restrict", "restrict_chk",
                     [loc[p] EXCEPT !.zones = Append(@, name),
                                    !.ops = @ \o RestrictOps(name), !.i = @ + 1])
            ELSE LocalStep(p, "restrict", "restrict_chk", [loc[p] EXCEPT !.i = @ + 1])

\* lines 392-394
RestrictChk(p) == CheckStep(p, "restrict_chk", "run_post_chk", "restrict")

\* lines 402-409: union of the zones, rasterized against the template
Union(p) ==
    PrimitiveStep(p, "union", "progress_restrict",
                  [loc[p] EXCEPT !.mask = TRUE,
                                 !.ops = @ \o <<Op("Union", "mask"),
                                                Op("RasterizePolygon", "mask")>>])

ProgressRestrict_low(p) ==
    ProgressStep(p, "progress_restrict", 5, "restrict", "Restricted zones prepared",
                 "record_restricted")

\* line 410
ProgressRestrict(p) ==
    ProgressStep(p, "progress_restrict", 50, "restrict", "Restricted zones prepared",
                 "record_restricted")

\* line 411
RecordRestricted(p) ==
    FileStep(p, "record_restricted", "restricted", RestrictedMaskPath, "evaluate")

\* lines 419-426: score raster of the next factor, or leave the loop
Evaluate(p) ==
    /\ pc[p] = "evaluate"
    /\ IF loc[p].i > Len(loc[p].factors)
       THEN LocalStep(p, "evaluate", "progress_score", [loc[p] EXCEPT !.i = 1])
       ELSE LET name == loc[p].factors[loc[p].i] IN
            IF CatalogEntry(name).method_evaluate # "none"
            THEN PrimitiveStep(p, "evaluate", "record_score",
                     [loc[p] EXCEPT !.scores = IF \E k \in DOMAIN @ : @[k] = name
                                               THEN @ ELSE Append(@, name),
                                    !.ops = @ \o EvaluateOps(name),
                                    !.cur = name, !.i = @ + 1])
            ELSE LocalStep(p, "evaluate", "evaluate_chk", [loc[p] EXCEPT !.i = @ + 1])

\* line 427
RecordScore(p) ==
    FileStep(p, "record_score", loc[p].cur, ScorePath(loc[p].cur), "evaluate_chk")

\* lines 428-430
EvaluateChk(p) == CheckStep(p, "evaluate_chk", "run_post_chk", "evaluate")

\* line 431
ProgressScore(p) ==
    ProgressStep(p, "progress_score", 80, "score", "Factors scored", "combine")

\* lines 437-446 and 462-464: weighted combination, or None without score rasters
Combine(p) ==
    /\ pc[p] = "combine"
    /\ IF loc[p].scores = <<>>
       THEN LocalStep(p, "combine", "run_post_chk", [loc[p] EXCEPT !.result = None])
       ELSE PrimitiveStep(p, "combine", "record_weighted",
                          [loc[p] EXCEPT !.ops = Append(@, Op("Combine_rasters", "weighted"))])

\* line 447
RecordWeighted(p) ==
    FileStep(p, "record_weighted", "weighted", WeightedPath, "apply_mask")

ApplyMask_never(p) ==
    /\ pc[p] = "apply_mask"
    /\ LocalStep(p, "apply_mask", "progress_combine",
                 [loc[p] EXCEPT !.result = Some(WeightedPath)])

\* lines 450-452: apply the restricted mask when there is one
ApplyMask(p) ==
    /\ pc[p] = "apply_mask"
    /\ IF loc[p].mask
       THEN PrimitiveStep(p, "apply_mask", "progress_combine",
                          [loc[p] EXCEPT !.result = Some(MaskedPath),
                                         !.ops = Append(@, Op("Apply_mask", "weighted"))])
       ELSE LocalStep(p, "apply_mask", "progress_combine",
                      [loc[p] EXCEPT !.result = Some(WeightedPath)])

\* lines 453 and 457
ProgressCombine(p) ==
    ProgressStep(p, "progress_combine", 95, "combine", "Finalizing", "record_final")

\* lines 454-458: only the masked raster is recorded as "final"
RecordFinal(p) ==
    /\ pc[p] = "record_final"
    /\ IF loc[p].mask
       THEN FileStep(p, "record_final", "final", MaskedPath, "run_post_chk")
       ELSE LocalStep(p, "record_final", "run_post_chk", loc[p])

----------------------------------------------------------------------------
\* process_map_task after the engine run

\* line 211: the cancellation check that decides about Success
FinalChk(p) ==
    /\ pc[p] = "final_chk"
    /\ LET c == is_cancelled(task) IN
         /\ Goto(p, IF c THEN "done" ELSE "progress_success")
         /\ loc' = [loc EXCEPT ![p].checked = Some(c)]
         /\ hist' = [H("final_chk", p) EXCEPT !.cancelled = Some(c)]
    /\ UNCHANGED <<task, progress, files, nDbFail>>
    /\ UNCHANGED Rest

\* line 212
ProgressSuccess(p) ==
    ProgressStep(p, "progress_success", 100, "success", "Completed", "mark_success")

MarkSuccess_no_ended_at(p) ==
    /\ pc[p] = "mark_success"
    /\ task' = _quick_update_task(task, [status |-> SUCCESS])
    /\ clock' = clock + 1
    /\ Goto(p, "done")
    /\ loc' = [loc EXCEPT ![p].writes = Append(@, SUCCESS)]
    /\ hist' = H("mark_success", p)
    /\ UNCHANGED <<cfg, progress, files, bucket, procs, calc, nCancel, nDbFail, nRuns>>

\* lines 214-218
MarkSuccess(p) ==
    /\ pc[p] = "mark_success"
    /\ task' = _quick_update_task(task, [status |-> SUCCESS, ended_at |-> Some(clock)])
    /\ clock' = clock + 1
    /\ Goto(p, "done")
    /\ loc' = [loc EXCEPT ![p].writes = Append(@, SUCCESS)]
    /\ hist' = H("mark_success", p)
    /\ UNCHANGED <<cfg, progress, files, bucket, procs, calc, nCancel, nDbFail, nRuns>>

\* lines 219-228: the except clause shortens the text and records the error
Except(p) ==
    /\ pc[p] = "except"
    /\ \E ok \in OkChoices :
         LET msg == truncate_msg(loc[p].exc)
             r == record_error(progress, loc[p].user_id, msg, "error", None, "Failed", ok)
         IN /\ progress' = r.log
            /\ CountFail(ok)
            /\ loc' = [loc EXCEPT ![p].msg = msg]
            /\ Goto(p, IF r.raised THEN "crashed" ELSE "mark_failure")
            /\ hist' = [H("except", p) EXCEPT !.wfail = ~ok]
    /\ UNCHANGED <<task, files>>
    /\ UNCHANGED Rest

MarkFailure_no_write(p) ==
    /\ pc[p] = "mark_failure"
    /\ Goto(p, "done")
    /\ hist' = H("mark_failure", p)
    /\ UNCHANGED <<task, cfg, progress, files, bucket, loc, clock, procs, calc,
                   nCancel, nDbFail, nRuns>>

\* lines 229-234
MarkFailure(p) ==
    /\ pc[p] = "mark_failure"
    /\ task' = _quick_update_task(task,
                  [status |-> FAILURE, error_msg |-> Some(loc[p].msg),
                   ended_at |-> Some(clock)])
    /\ clock' = clock + 1
    /\ Goto(p, "done")
    /\ loc' = [loc EXCEPT ![p].writes = Append(@, FAILURE)]
    /\ hist' = H("mark_failure", p)
    /\ UNCHANGED <<cfg, progress, files, bucket, procs, calc, nCancel, nDbFail, nRuns>>

----------------------------------------------------------------------------
\* Specification: one background invocation at a time, with cancel and delete
\* requests arriving at any moment

Next ==
    \/ \E p \in Procs : Invoke(p)
    \/ \E p \in Procs : Load(p)
    \/ \E p \in Procs : MarkProcessing(p)
    \/ \E p \in Procs : Reload(p)
    \/ \E p \in Procs : ProgressInit(p)
    \/ \E p \in Procs : RunDistricts(p)
    \/ \E p \in Procs : RunChk(p)
    \/ \E p \in Procs : PdChk(p)
    \/ \E p \in Procs : Select(p)
    \/ \E p \in Procs : ProgressBoundary(p)
    \/ \E p \in Procs : Prepare(p)
    \/ \E p \in Procs : PrepareChk(p)
    \/ \E p \in Procs : Template(p)
    \/ \E p \in Procs : Restrict(p)
    \/ \E p \in Procs : RestrictChk(p)
    \/ \E p \in Procs : Union(p)
    \/ \E p \in Procs : ProgressRestrict(p)
    \/ \E p \in Procs : RecordRestricted(p)
    \/ \E p \in Procs : Evaluate(p)
    \/ \E p \in Procs : RecordScore(p)
    \/ \E p \in Procs : EvaluateChk(p)
    \/ \E p \in Procs : ProgressScore(p)
    \/ \E p \in Procs : Combine(p)
    \/ \E p \in Procs : RecordWeighted(p)
    \/ \E p \in Procs : ApplyMask(p)
    \/ \E p \in Procs : ProgressCombine(p)
    \/ \E p \in Procs : RecordFinal(p)
    \/ \E p \in Procs : RunPostChk(p)
    \/ \E p \in Procs : ProgressFinished(p)
    \/ \E p \in Procs : RunReturn(p)
    \/ \E p \in Procs : FinalChk(p)
    \/ \E p \in Procs : ProgressSuccess(p)
    \/ \E p \in Procs : MarkSuccess(p)
    \/ \E p \in Procs : Except(p)
    \/ \E p \in Procs : MarkFailure(p)
    \/ Cancel
    \/ Delete

Spec == Init /\ [][Next]_vars

TypeOK ==
    /\ task.status \in {PENDING, PROCESSING, SUCCESS, FAILURE, CANCELLED}
    /\ \A k \in DOMAIN progress : progress[k].percent \in 0..100

----------------------------------------------------------------------------
\* Request validation (models.py) and task creation (crud.py)

\* consts.ALLOWED_CONSTRAINTS and consts.ALLOWED_SUITABILITY
ALLOWED_CONSTRAINTS == <<"rivers", "lakes", "coastlines", "residential">>
ALLOWED_SUITABILITY == <<"slope", "roads", "powerlines", "solar", "temperature">>

\* sort key of a kind that is not in the allowed list
UnknownRank == 1000000

\* CreateMapTaskReq._unique_by_kind
RECURSIVE unique_from(_, _)
unique_from(items, seen) ==
    IF items = <<>> THEN <<>>
    ELSE LET it == Head(items) IN
         IF "kind" \notin DOMAIN it \/ it.kind \in seen
         THEN unique_from(Tail(items), seen)
         ELSE <<it>> \o unique_from(Tail(items), seen \cup {it.kind})

RECURSIVE keep_last(_)
keep_last(items) ==
    IF items = <<>> THEN <<>>
    ELSE LET it == Head(items)
             later == {Tail(items)[k].kind : k \in DOMAIN Tail(items)}
         IN IF it.kind \in later THEN keep_last(Tail(items))
            ELSE <<it>> \o keep_last(Tail(items))

_unique_by_kind_last(items) == keep_last(items)

_unique_by_kind(items) == unique_from(items, {})

\* the key _order_by_allowed sorts by: the position of the kind in the allowed list
rank_of(kind, allowed_order) ==
    IF \E i \in DOMAIN allowed_order : allowed_order[i] = kind
    THEN (CHOOSE i \in DOMAIN allowed_order :
             /\ allowed_order[i] = kind
             /\ \A j \in DOMAIN allowed_order : allowed_order[j] = kind => j <= i) - 1
    ELSE UnknownRank

\* sorted(items, key=...): stable, ascending by key
RECURSIVE sorted_by(_, _)
sorted_by(items, allowed_order) ==
    IF items = <<>> THEN <<>>
    ELSE LET ranks == {rank_of(items[k].kind, allowed_order) : k \in DOMAIN items}
             lo == CHOOSE r \in ranks : \A q \in ranks : r <= q
         IN SelectSeq(items, LAMBDA it : rank_of(it.kind, allowed_order) = lo)
            \o sorted_by(SelectSeq(items, LAMBDA it : rank_of(it.kind, allowed_order) # lo),
                         allowed_order)

\* CreateMapTaskReq._order_by_allowed
_order_by_allowed_unsorted(items, allowed_order) == items

_order_by_allowed(items, allowed_order) == sorted_by(items, allowed_order)

\* the field validators of the kinds
InList(kind, allowed) == \E i \in DOMAIN allowed : allowed[i] = kind

_valid_constraint_kind(f) == InList(f.kind, ALLOWED_CONSTRAINTS)

_valid_suitability_kind(f) == InList(f.kind, ALLOWED_SUITABILITY)

\* the list validators: the normalised list, or a ValueError
_normalize_constraints(v) ==
    [ok |-> TRUE, value |-> _order_by_allowed(_unique_by_kind(v), ALLOWED_CONSTRAINTS)]

_normalize_suitability(v) ==
    IF v = <<>> THEN [ok |-> FALSE, value |-> <<>>]
    ELSE [ok |-> TRUE, value |-> _order_by_allowed(_unique_by_kind(v), ALLOWED_SUITABILITY)]

\* json.dumps(..., default=pydantic_encoder): each factor becomes an object with
\* the fields of its model
dumps_constraints(fs) ==
    Json([k \in DOMAIN fs |-> [kind |-> fs[k].kind, value |-> fs[k].value]])

dumps_suitability(fs) ==
    Json([k \in DOMAIN fs |-> [kind |-> fs[k].kind, weight |-> fs[k].weight,
                               breakpoints |-> fs[k].breakpoints,
                               points |-> fs[k].points]])

----------------------------------------------------------------------------
\* Specification of a creation request: validation, storage of the row, and the
\* resolution of the stored factors by the engine

MaxReqLen == 3

SeqsUpTo(S, n) == UNION {[1..k -> S] : k \in 0..n}

\* factors a request may carry; two of them share the kind slope, two the kind rivers
Slope2 == [kind |-> "slope", weight |-> 20, breakpoints |-> <<3>>, points |-> <<9, 1>>]
Rivers2 == [kind |-> "rivers", value |-> 100]
Lakes == [kind |-> "lakes", value |-> 300]
NotAConstraint == [kind |-> "slope", value |-> 1]

ReqConstraints == {<<>>, <<Rivers>>, <<Lakes, Rivers, Rivers2>>, <<NotAConstraint>>}

ReqSuitability == SeqsUpTo({Slope, Slope2, Roads, Solar}, MaxReqLen)

NoRequest == [district_code |-> "", constraint_factors |-> <<>>, suitability_factors |-> <<>>]

InitRequest ==
    /\ task = [exists |-> FALSE, status |-> PENDING, error_msg |-> None,
               started_at |-> None, ended_at |-> None]
    /\ cfg = [user_id |-> 7, district |-> "",
              constraint_factors |-> Json(<<>>), suitability_factors |-> Json(<<>>)]
    /\ progress = <<>>
    /\ files = <<>>
    /\ bucket = {}
    /\ pc = [p \in Procs |-> "idle"]
    /\ loc = [p \in Procs |-> InitLoc]
    /\ clock = 1
    /\ procs = {}
    /\ nCancel = 0
    /\ nDbFail = 0
    /\ nRuns = 0
    /\ hist = NoHist
    /\ \E c \in ReqConstraints, f \in ReqSuitability :
         calc = [fn |-> "create", stage |-> "request",
                 request |-> [district_code |-> "001", constraint_factors |-> c,
                              suitability_factors |-> f],
                 payload |-> NoRequest, factors |-> <<>>,
                 evaluated |-> <<>>, weighted |-> <<>>]

\* CreateMapTaskReq: the kind validators of the factors, then the list validators
validate(req) ==
    LET c == _normalize_constraints(req.constraint_factors)
        f == _normalize_suitability(req.suitability_factors)
    IN IF /\ \A k \in DOMAIN req.constraint_factors :
                _valid_constraint_kind(req.constraint_factors[k])
          /\ \A k \in DOMAIN req.suitability_factors :
                _valid_suitability_kind(req.suitability_factors[k])
          /\ c.ok /\ f.ok
       THEN Some([district_code |-> req.district_code,
                  constraint_factors |-> c.value, suitability_factors |-> f.value])
       ELSE None

ValidateRequest ==
    /\ calc.fn = "create" /\ calc.stage = "request"
    /\ LET v == validate(calc.request) IN
         calc' = IF v = None THEN [calc EXCEPT !.stage = "rejected"]
                 ELSE [calc EXCEPT !.stage = "validated", !.payload = v[1]]
    /\ UNCHANGED <<task, cfg, progress, files, bucket, pc, loc, clock, procs,
                   nCancel, nDbFail, nRuns, hist>>

\* crud.create_map_task: store the row as Pending and schedule process_map_task
CreateMapTask ==
    /\ calc.fn = "create" /\ calc.stage = "validated"
    /\ task' = [task EXCEPT !.exists = TRUE, !.status = PENDING]
    /\ cfg' = [user_id |-> cfg.user_id, district |-> calc.payload.district_code,
               constraint_factors |-> dumps_constraints(calc.payload.constraint_factors),
               suitability_factors |-> dumps_suitability(calc.payload.suitability_factors)]
    /\ procs' = procs \cup {1}
    /\ calc' = [calc EXCEPT !.stage = "stored"]
    /\ UNCHANGED <<progress, files, bucket, pc, loc, clock, nCancel, nDbFail, nRuns, hist>>

\* processor.py lines 161-206: the EngineConfigs of the stored row and the engine's
\* self.factors
ConstructEngine ==
    /\ calc.fn = "create" /\ calc.stage = "stored"
    /\ calc' = [calc EXCEPT !.stage = "resolved",
                            !.factors = resolved_factors(build_configs(cfg))]
    /\ UNCHANGED <<task, cfg, progress, files, bucket, pc, loc, clock, procs,
                   nCancel, nDbFail, nRuns, hist>>

\* engine.py lines 413-443: the evaluate loop and the list for RPL_Combine_rasters
EvaluateFactors ==
    /\ calc.fn = "create" /\ calc.stage = "resolved"
    /\ calc' = [calc EXCEPT !.stage = "combined",
                            !.evaluated = evaluated_factors(calc.factors),
                            !.weighted = weighted_rasters(calc.factors)]
    /\ UNCHANGED <<task, cfg, progress, files, bucket, pc, loc, clock, procs,
                   nCancel, nDbFail, nRuns, hist>>

NextRequest ==
    \/ ValidateRequest
    \/ CreateMapTask
    \/ ConstructEngine
    \/ EvaluateFactors

SpecRequest == InitRequest /\ [][NextRequest]_vars

----------------------------------------------------------------------------
\* Raster primitives (functions.py): a raster is the sequence of its cells

DISTANCE_NODATA == -9999

BMin(S) == CHOOSE a \in S : \A b \in S : BLeq(a, b)
BMax(S) == CHOOSE a \in S : \A b \in S : BLeq(b, a)

\* the test of one rule of RPL_Reclassify: low <= x < high
in_rule(rule, x) == BLeq(rule[1], Fin(x)) /\ BLt(Fin(x), rule[2])

\* the loop over remap_range: every rule is tested against the input value and
\* overwrites what an earlier rule has set
RECURSIVE apply_rules_cascade(_, _, _)
apply_rules_cascade(rules, x, cur) ==
    IF rules = <<>> THEN cur
    ELSE apply_rules_cascade(Tail(rules), x,
                             IF in_rule(Head(rules), cur) THEN Head(rules)[3] ELSE cur)

RECURSIVE apply_rules(_, _, _)
apply_rules(rules, x, cur) ==
    IF rules = <<>> THEN cur
    ELSE apply_rules(Tail(rules), x, IF in_rule(Head(rules), x) THEN Head(rules)[3] ELSE cur)

Raises == [raised |-> TRUE, out |-> None]

\* RPL_Reclassify: the raster written, or a ValueError and no output
RPL_Reclassify(data, nodata_value, remap_range) ==
    IF remap_range = <<>> THEN Raises
    ELSE
      LET remap_min == BMin({remap_range[k][1] : k \in DOMAIN remap_range})
          remap_max == BMax({remap_range[k][2] : k \in DOMAIN remap_range})
          nodata_mask == [k \in DOMAIN data |->
                             nodata_value # None /\ data[k] = nodata_value[1]]
          without_nodata == {data[k] : k \in {j \in DOMAIN data : ~nodata_mask[j]}}
      IN IF /\ nodata_value # None
            /\ BLeq(remap_min, Fin(nodata_value[1]))
            /\ BLeq(Fin(nodata_value[1]), remap_max)
         THEN Raises
         ELSE IF without_nodata = {} THEN Raises
         ELSE LET min_value == CHOOSE v \in without_nodata : \A w \in without_nodata : v <= w
                  max_value == CHOOSE v \in without_nodata : \A w \in without_nodata : w <= v
              IN IF BLt(Fin(min_value), remap_min) \/ BLt(remap_max, Fin(max_value))
                 THEN Raises
                 ELSE [raised |-> FALSE,
                       out |-> Some([k \in DOMAIN data |->
                                       IF nodata_mask[k] THEN nodata_value[1]
                                       ELSE apply_rules(remap_range, data[k], data[k])])]

\* a quotient n/d (d > 0) in lowest terms
RECURSIVE gcd(_, _)
gcd(a, b) == IF b = 0 THEN a ELSE gcd(b, a % b)

Abs(n) == IF n < 0 THEN -n ELSE n

Frac(n, d) == LET g == gcd(Abs(n), d) IN <<n \div g, d \div g>>

\* sum(all_weights)
RECURSIVE sum_weights(_)
sum_weights(inputs) ==
    IF inputs = <<>> THEN 0 ELSE Head(inputs)[2] + sum_weights(Tail(inputs))

\* the sum over the inputs of cell c times weight
RECURSIVE sum_products(_, _)
sum_products(inputs, c) ==
    IF inputs = <<>> THEN 0
    ELSE Head(inputs)[1][c] * Head(inputs)[2] + sum_products(Tail(inputs), c)

\* RPL_Combine_rasters: per cell the sum of value * weight / total_weight; a cell
\* that is nodata in the first raster becomes DISTANCE_NODATA
RPL_Combine_rasters_unnormalised(inputs, raster_nodata) ==
    LET first_data == inputs[1][1]
    IN [c \in DOMAIN first_data |->
          IF raster_nodata # None /\ first_data[c] = raster_nodata[1]
          THEN Frac(DISTANCE_NODATA, 1)
          ELSE Frac(sum_products(inputs, c), 1)]

RPL_Combine_rasters(inputs, raster_nodata) ==
    LET first_data == inputs[1][1]
        total_weight == sum_weights(inputs)
    IN [c \in DOMAIN first_data |->
          IF raster_nodata # None /\ first_data[c] = raster_nodata[1]
          THEN Frac(DISTANCE_NODATA, 1)
          ELSE Frac(sum_products(inputs, c), total_weight)]

----------------------------------------------------------------------------
\* Specification of the raster primitives applied to small rasters

MaxCells == 2
MaxScale == 4

\* rule sets: contiguous, with a gap, the whole line, overlapping, empty
RuleSets ==
    { << <<Fin(0), Fin(5), 7>>, <<Fin(5), Fin(10), 8>> >>,
      << <<Fin(0), Fin(5), 7>>, <<Fin(7), Fin(10), 8>> >>,
      << <<NegInf, Fin(5), 1>>, <<Fin(5), PosInf, 2>> >>,
      << <<Fin(0), Fin(10), 3>>, <<Fin(5), Fin(15), 4>> >>,
      <<>> }

CellValues == {-1, 3, 6, 10}

Rasters(V) == UNION {[1..n -> V] : n \in 1..MaxCells}

ScoreValues == {0, 5, 10}

Grids == [1..MaxCells -> ScoreValues]

Weights == {1, 3}

InitRaster ==
    /\ task = [exists |-> FALSE, status |-> PENDING, error_msg |-> None,
               started_at |-> None, ended_at |-> None]
    /\ cfg = [user_id |-> 7, district |-> "",
              constraint_factors |-> Json(<<>>), suitability_factors |-> Json(<<>>)]
    /\ progress = <<>>
    /\ files = <<>>
    /\ bucket = {}
    /\ pc = [p \in Procs |-> "idle"]
    /\ loc = [p \in Procs |-> InitLoc]
    /\ clock = 1
    /\ procs = {}
    /\ nCancel = 0
    /\ nDbFail = 0
    /\ nRuns = 0
    /\ hist = NoHist
    /\ \/ \E d \in Rasters(CellValues), nd \in {None, Some(-1), Some(6)}, r \in RuleSets :
            calc = [fn |-> "reclassify", done |-> FALSE, data |-> d, nodata |-> nd,
                    rules |-> r, raised |-> FALSE, out |-> None]
       \/ \E a \in Grids \X Weights, rest \in SeqsUpTo(Grids \X Weights, 1),
             nd \in {None, Some(0)} :
            calc = [fn |-> "combine", done |-> FALSE, inputs |-> <<a>> \o rest,
                    nodata |-> nd, raised |-> FALSE, out |-> None]

Reclassify ==
    /\ calc.fn = "reclassify" /\ ~calc.done
    /\ LET r == RPL_Reclassify(calc.data, calc.nodata, calc.rules) IN
         calc' = [calc EXCEPT !.done = TRUE, !.raised = r.raised, !.out = r.out]
    /\ UNCHANGED <<task, cfg, progress, files, bucket, pc, loc, clock, procs,
                   nCancel, nDbFail, nRuns, hist>>

CombineRasters ==
    /\ calc.fn = "combine" /\ ~calc.done
    /\ calc' = [calc EXCEPT !.done = TRUE,
                            !.out = Some(RPL_Combine_rasters(calc.inputs, calc.nodata))]
    /\ UNCHANGED <<task, cfg, progress, files, bucket, pc, loc, clock, procs,
                   nCancel, nDbFail, nRuns, hist>>

NextRaster ==
    \/ Reclassify
    \/ CombineRasters

SpecRaster == InitRaster /\ [][NextRaster]_vars

----------------------------------------------------------------------------
\* Specification of one invocation on stored rows whose factor columns may be
\* corrupt, without cancel or delete requests

StoredConfigs ==
    { [user_id |-> 7, district |-> "001",
       constraint_factors |-> Json(<<Rivers>>), suitability_factors |-> Json(<<Slope>>)],
      [user_id |-> 7, district |-> "001",
       constraint_factors |-> Corrupt(<<Rivers>>), suitability_factors |-> Json(<<Slope>>)],
      [user_id |-> 7, district |-> "001",
       constraint_factors |-> Json(<<Rivers>>), suitability_factors |-> Corrupt(<<Slope>>)],
      [user_id |-> 7, district |-> "001",
       constraint_factors |-> Corrupt(<<Rivers>>), suitability_factors |-> Corrupt(<<Slope>>)] }

\* a Pending row with the given stored columns and the given scheduled invocations
InitRow(rows, ps) ==
    /\ task = [exists |-> TRUE, status |-> PENDING, error_msg |-> None,
               started_at |-> None, ended_at |-> None]
    /\ cfg \in rows
    /\ progress = <<>>
    /\ files = <<>>
    /\ bucket = {}
    /\ pc = [p \in Procs |-> "idle"]
    /\ loc = [p \in Procs |-> InitLoc]
    /\ clock = 1
    /\ procs = ps
    /\ calc = NoCalc
    /\ nCancel = 0
    /\ nDbFail = 0
    /\ nRuns = 0
    /\ hist = NoHist

InitStored == InitRow(StoredConfigs, {1})

\* process_map_task from the trigger to the first primitive of the engine run,
\* with the except clause
Start(p) ==
    \/ Invoke(p)
    \/ Load(p)
    \/ MarkProcessing(p)
    \/ Reload(p)
    \/ ProgressInit(p)
    \/ RunDistricts(p)
    \/ RunChk(p)
    \/ PdChk(p)
    \/ Select(p)
    \/ Except(p)
    \/ MarkFailure(p)

\* the rest of the engine run and of process_map_task
Finish(p) ==
    \/ ProgressBoundary(p)
    \/ Prepare(p)
    \/ PrepareChk(p)
    \/ Template(p)
    \/ Restrict(p)
    \/ RestrictChk(p)
    \/ Union(p)
    \/ ProgressRestrict(p)
    \/ RecordRestricted(p)
    \/ Evaluate(p)
    \/ RecordScore(p)
    \/ EvaluateChk(p)
    \/ ProgressScore(p)
    \/ Combine(p)
    \/ RecordWeighted(p)
    \/ ApplyMask(p)
    \/ ProgressCombine(p)
    \/ RecordFinal(p)
    \/ RunPostChk(p)
    \/ ProgressFinished(p)
    \/ RunReturn(p)
    \/ FinalChk(p)
    \/ ProgressSuccess(p)
    \/ MarkSuccess(p)

NextStored == \E p \in Procs : Start(p) \/ Finish(p)

SpecStored == InitStored /\ [][NextStored]_vars

----------------------------------------------------------------------------
\* Specification of a duplicate trigger: two background invocations for the same
\* Pending task, each followed from its trigger to the first primitive of its
\* engine run (or to the Failure its except clause writes)

TwoConfigs ==
    { [user_id |-> 7, district |-> "001",
       constraint_factors |-> Json(<<Rivers>>), suitability_factors |-> Json(<<Slope>>)],
      [user_id |-> 7, district |-> "999",
       constraint_factors |-> Json(<<>>), suitability_factors |-> Json(<<Slope>>)] }

InitTwo == InitRow(TwoConfigs, Procs)

NextTwo == \E p \in Procs : Start(p)

SpecTwo == InitTwo /\ [][NextTwo]_vars

----------------------------------------------------------------------------
\* Specification of an invocation that is scheduled and keeps running: the task
\* is Pending, or Processing when the job is delivered again after its worker was
\* lost; cancel requests arrive at any moment. The worker goes on executing while
\* it has a step to take, and every primitive and store access returns.

InitLive ==
    /\ \/ task = [exists |-> TRUE, status |-> PENDING, error_msg |-> None,
                   started_at |-> None, ended_at |-> None]
       \/ task = [exists |-> TRUE, status |-> PROCESSING, error_msg |-> None,
                   started_at |-> Some(0), ended_at |-> None]
    /\ cfg \in TwoConfigs
    /\ progress = <<>>
    /\ files = <<>>
    /\ bucket = {}
    /\ pc = [p \in Procs |-> "idle"]
    /\ loc = [p \in Procs |-> InitLoc]
    /\ clock = 1
    /\ procs = {1}
    /\ calc = NoCalc
    /\ nCancel = 0
    /\ nDbFail = 0
    /\ nRuns = 0
    /\ hist = NoHist

Worker == \E p \in Procs : Start(p) \/ Finish(p)

NextLive == Worker \/ Cancel

SpecLive == InitLive /\ [][NextLive]_vars /\ WF_vars(Worker)

----------------------------------------------------------------------------
\* Specification of an engine constructed directly on an EngineConfigs (as the
\* script at the end of engine.py does) and of the loops of process_district

MaxSpecs == 2

\* FactorSpecs a caller may hand over: catalog kinds on their own side, on the
\* other side, and kinds the catalog does not know
RestrictedSpecs ==
    { [kind |-> "rivers", buffer_distance |-> 300],
      [kind |-> "lakes", buffer_distance |-> 100],
      [kind |-> "slope", buffer_distance |-> 50],
      [kind |-> "volcano", buffer_distance |-> 700] }

SuitabilitySpecs ==
    { [kind |-> "slope", weight |-> 20, ranges |-> None],
      [kind |-> "solar", weight |-> 30,
       ranges |-> Some(<< <<Fin(0), Fin(140), 1>>, <<Fin(140), PosInf, 9>> >>)],
      [kind |-> "rivers", weight |-> 10, ranges |-> None],
      [kind |-> "wind", weight |-> 5, ranges |-> None] }

\* lists with at most one FactorSpec per kind
OnePerKind(S, n) ==
    {q \in SeqsUpTo(S, n) : \A i, j \in DOMAIN q : q[i].kind = q[j].kind => i = j}

InitEngine ==
    /\ task = [exists |-> FALSE, status |-> PENDING, error_msg |-> None,
               started_at |-> None, ended_at |-> None]
    /\ cfg = [user_id |-> 7, district |-> "",
              constraint_factors |-> Json(<<>>), suitability_factors |-> Json(<<>>)]
    /\ progress = <<>>
    /\ files = <<>>
    /\ bucket = {}
    /\ pc = [p \in Procs |-> "idle"]
    /\ loc = [p \in Procs |-> InitLoc]
    /\ clock = 1
    /\ procs = {}
    /\ nCancel = 0
    /\ nDbFail = 0
    /\ nRuns = 0
    /\ hist = NoHist
    /\ \E r \in OnePerKind(RestrictedSpecs, MaxSpecs),
          f \in OnePerKind(SuitabilitySpecs, MaxSpecs) :
         calc = [fn |-> "engine", stage |-> "configs",
                 configs |-> [restricted_factors |-> r, suitability_factors |-> f],
                 factors |-> <<>>, prepared |-> <<>>, zones |-> <<>>, weighted |-> <<>>]

\* SiteSuitabilityEngine.__init__: resolve the configuration into self.factors
InitializeFactors ==
    /\ calc.fn = "engine" /\ calc.stage = "configs"
    /\ calc' = [calc EXCEPT !.stage = "resolved",
                            !.factors = resolved_factors(calc.configs)]
    /\ UNCHANGED <<task, cfg, progress, files, bucket, pc, loc, clock, procs,
                   nCancel, nDbFail, nRuns, hist>>

\* the prepare, restrict and evaluate loops of process_district and the list it
\* hands to RPL_Combine_rasters
ProcessFactors ==
    /\ calc.fn = "engine" /\ calc.stage = "resolved"
    /\ calc' = [calc EXCEPT !.stage = "processed",
                            !.prepared = prepare_calls(calc.factors),
                            !.zones = restricted_zones(calc.factors),
                            !.weighted = weighted_rasters(calc.factors)]
    /\ UNCHANGED <<task, cfg, progress, files, bucket, pc, loc, clock, procs,
                   nCancel, nDbFail, nRuns, hist>>

NextEngine ==
    \/ InitializeFactors
    \/ ProcessFactors

SpecEngine == InitEngine /\ [][NextEngine]_vars

----------------------------------------------------------------------------
\* Properties

IsPrefix(a, b) == Len(a) <= Len(b) /\ SubSeq(b, 1, Len(a)) = a

\* the writes process_map_task makes to the status of the row
StatusWrites == {"mark_processing", "mark_success", "mark_failure"}

\* C1: cooperative cancellation. When a cancel request has flipped the status to
\* Cancelled between two checkpoints of the running Engine, the status of the task
\* after process_map_task has returned is Cancelled (in particular not Success).
C1_CancelledAfterReturn ==
    \A p \in Procs :
        (pc[p] = "done" /\ hist.flipped /\ task.exists) => task.status = CANCELLED

\* C2: terminal statuses are sticky. Once the persisted status is Success, Failure
\* or Cancelled, no write of process_map_task (mark Processing, mark Success,
\* mark Failure) changes it.
C2_TerminalSticky ==
    [][(task.exists /\ task.status \in Terminal /\ hist'.op \in StatusWrites)
         => task'.status = task.status]_vars

\* C3: idempotent terminal guard. An invocation that loads a task whose status is
\* already Success, Failure or Cancelled returns at once: it runs no Engine and
\* leaves the task row, the progress log and the artifact records unchanged.
C3_TerminalGuardNoOp ==
    [][\A p \in Procs :
         (pc[p] = "load" /\ pc'[p] # "load" /\ task.exists /\ task.status \in Terminal)
           => /\ pc'[p] = "done"
              /\ ~loc'[p].engine
              /\ task' = task
              /\ progress' = progress
              /\ files' = files]_vars

\* C3 witness: a re-invocation has just returned from the guard on a task that
\* failed earlier and has a progress history
C3_Witness ==
    /\ hist.op = "load"
    /\ pc[1] = "done"
    /\ task.exists /\ task.status = FAILURE
    /\ progress # <<>>

\* C4: a cancel request changes the status only when it is Pending or Processing;
\* on a task in Success, Failure or Cancelled it leaves status and ended_at unchanged.
C4_CancelOnlyNonTerminal ==
    [][(hist'.op = "cancel" /\ task.exists /\ task.status \in Terminal)
         => (task'.status = task.status /\ task'.ended_at = task.ended_at)]_vars

Last(q) == q[Len(q)]

\* m is e shortened to at most 250 characters: e itself when it has 250 or fewer,
\* otherwise its first 247 characters followed by "..."
Shortened(e, m) ==
    /\ Len(m) <= 250
    /\ Len(e) <= 250 => m = e
    /\ Len(e) > 250 => /\ Len(m) = 250
                       /\ SubSeq(m, 1, 247) = SubSeq(e, 1, 247)
                       /\ SubSeq(m, 248, 250) = <<".", ".", ".">>

\* C5 as stated: after the Failure write the task has status Failure, ended_at set
\* and the shortened exception text as error_msg, and the last progress entry
\* carries that text.
C5_FailureAsStated ==
    hist.op = "mark_failure" =>
        /\ task.status = FAILURE
        /\ task.ended_at # None
        /\ task.error_msg # None
        /\ Shortened(loc[hist.p].exc, task.error_msg[1])
        /\ progress # <<>>
        /\ Last(progress).error_msg = task.error_msg

\* C5 (amended): an exception raised while the configuration is built or the Engine
\* runs never leaves process_map_task. The except clause calls record_error with the
\* shortened text, which appends one progress entry carrying that text stripped of
\* surrounding whitespace ("Error" when nothing is left) unless the insert fails;
\* then the row, if it still exists, gets status Failure, ended_at and the shortened
\* text as error_msg.
C5_FailureRecorded ==
    [][/\ \A p \in Procs : pc'[p] # "crashed"
       /\ \A p \in Procs : (pc[p] = "except" /\ pc'[p] # "except") =>
            /\ pc'[p] = "mark_failure"
            /\ Shortened(loc[p].exc, loc'[p].msg)
            /\ progress' =
                 IF hist'.wfail THEN progress
                 ELSE Append(progress,
                        [user_id |-> loc[p].user_id, percent |-> 0, phase |-> "error",
                         description |-> "Failed",
                         error_msg |-> Some(IF strip(loc'[p].msg) = <<>> THEN ErrorText
                                            ELSE strip(loc'[p].msg))])
       /\ \A p \in Procs : (pc[p] = "mark_failure" /\ pc'[p] # "mark_failure") =>
            /\ pc'[p] = "done"
            /\ task.exists =>
                 /\ task'.status = FAILURE
                 /\ task'.ended_at = Some(clock)
                 /\ task'.error_msg = Some(loc[p].msg)]_vars

\* C5 witness: a run failed with a text longer than 250 characters; the row and the
\* last progress entry carry the shortened text
C5_Witness ==
    /\ hist.op = "mark_failure"
    /\ Len(loc[1].exc) > 250
    /\ task.exists /\ task.status = FAILURE /\ task.ended_at # None
    /\ task.error_msg = Some(loc[1].msg)
    /\ progress # <<>> /\ Last(progress).error_msg = task.error_msg

\* the (percent, phase) pairs of a sequence of progress rows or update_progress calls
Marks(q) == [k \in DOMAIN q |-> <<q[k].percent, q[k].phase>>]

\* the update_progress calls of a run whose insert succeeded
OkCalls(calls) == SelectSeq(calls, LAMBDA c : c.ok)

\* C6 as stated: when Success is written, Engine.run has returned, the check after it
\* returned false, ended_at is set, and the log holds a (0, "init") entry followed
\* by a (100, "success") entry.
C6_SuccessAsStated ==
    (hist.op = "mark_success" /\ task.exists) =>
        /\ task.status = SUCCESS
        /\ task.ended_at # None
        /\ loc[hist.p].returned
        /\ loc[hist.p].checked = Some(FALSE)
        /\ \E i, j \in DOMAIN progress :
              /\ i < j
              /\ Marks(progress)[i] = <<0, "init">>
              /\ Marks(progress)[j] = <<100, "success">>

\* C6 (amended): the status becomes Success only by the write that follows an
\* Engine.run that returned without exception and a cancellation check that returned
\* false. In that run update_progress(0, "init") is the first monitor call, made
\* before the Engine starts, and update_progress(100, "success") the last one before
\* the write; each of the calls has appended its entry unless its insert failed; and
\* ended_at is set in the same write.
C6_SuccessOnlyAfterCleanRun ==
    [][(task'.exists /\ task'.status = SUCCESS /\ task.status # SUCCESS) =>
         /\ hist'.op = "mark_success"
         /\ LET l == loc[hist'.p] IN
              /\ l.engine /\ l.returned /\ l.exc = <<>>
              /\ l.checked = Some(FALSE)
              /\ Len(l.calls) >= 2
              /\ Marks(l.calls)[1] = <<0, "init">>
              /\ Marks(l.calls)[Len(l.calls)] = <<100, "success">>
              /\ Marks(progress) = Marks(OkCalls(l.calls))
         /\ task'.ended_at = Some(clock)]_vars

\* C6 witness: Success has just been written after a run whose entries are all logged
C6_Witness ==
    /\ hist.op = "mark_success"
    /\ task.exists /\ task.status = SUCCESS /\ task.ended_at # None
    /\ loc[1].returned /\ loc[1].checked = Some(FALSE)
    /\ Marks(progress)[1] = <<0, "init">>
    /\ Marks(progress)[Len(progress)] = <<100, "success">>
    /\ nDbFail = 0

\* C7: every is_cancelled call returns true exactly when the row is missing or its
\* persisted status at that moment is Cancelled, whatever earlier calls returned.
C7_IsCancelledReadsStore ==
    hist.cancelled # None =>
        (hist.cancelled[1] <=> (~task.exists \/ task.status = CANCELLED))

\* C7 witness: a checkpoint inside the prepare loop sees a cancel that was written
\* after the earlier checkpoints of the same run had returned false
C7_Witness ==
    /\ hist.op = "prepare_chk"
    /\ hist.cancelled = Some(TRUE)
    /\ task.exists /\ task.status = CANCELLED
    /\ hist.flipped

\* the statement that follows each monitor write in process_map_task and the engine
AfterWrite ==
    [ progress_init |-> {"run_districts"},
      progress_boundary |-> {"prepare"},
      progress_restrict |-> {"record_restricted"},
      record_restricted |-> {"evaluate"},
      record_score |-> {"evaluate_chk"},
      progress_score |-> {"combine"},
      record_weighted |-> {"apply_mask"},
      progress_combine |-> {"record_final"},
      record_final |-> {"run_post_chk"},
      progress_finished |-> {"run_return"},
      progress_success |-> {"mark_success"},
      except |-> {"mark_failure"} ]

C9_RecordsPointToUploads ==
    \A k \in DOMAIN files :
        /\ files[k].file_path \in bucket
        /\ \E name \in {RestrictedMaskPath, WeightedPath, MaskedPath}
                          \cup {ScorePath(n) : n \in CatalogNames} :
              files[k].file_path = save_task_file(name, files[k].user_id)

\* C10 as stated: every step leaves the earlier progress history a prefix of the
\* later one.
C10_AppendOnlyAsStated == [][IsPrefix(progress, progress')]_vars

\* C10 (amended): every operation except the deletion of the task leaves the earlier
\* progress history a prefix of the later one; delete_map_task, which removes the
\* task row, is the only operation that removes progress entries, and none updates one.
C10_AppendOnlyUntilDelete ==
    [][\/ IsPrefix(progress, progress')
       \/ /\ task.exists /\ ~task'.exists
          /\ hist'.op = "delete"
          /\ \A k \in DOMAIN progress' : \E j \in DOMAIN progress : progress'[k] = progress[j]]_vars

\* C10 witness: the task has been deleted after its run had logged progress entries,
\* and the log is empty
C10_Witness ==
    /\ hist.op = "delete"
    /\ ~task.exists
    /\ \E k \in DOMAIN loc[1].calls : loc[1].calls[k].ok
    /\ progress = <<>>

\* the factors of a resolved configuration that carry an evaluate step producing a score
ScoringKinds == {k \in CatalogNames : CatalogEntry(k).method_evaluate # "none"}

NoScoring(factors) == \A k \in DOMAIN factors : factors[k] \notin ScoringKinds

\* C11: with a configuration that has zero scoring factors, with or without
\* exclusion factors, process_district raises nothing of its own and its result is None.
C11_NoScoresReturnsNone ==
    \A p \in Procs :
        (loc[p].engine /\ NoScoring(loc[p].factors)) =>
            /\ loc[p].result = None
            /\ (hist.op = "template" /\ hist.p = p) => pc[p] # "except"

\* how often process_district has run the primitive operation `name`
Count(ops, name) == Cardinality({k \in DOMAIN ops : ops[k].op = name})

\* how often it has run `name` on behalf of `of`
CountOf(ops, name, of) == Cardinality({k \in DOMAIN ops : ops[k] = Op(name, of)})

\* the factors of a run that are scored by proximity
ProximityKinds(factors) ==
    {k \in DOMAIN factors :
        CatalogEntry(factors[k]).method_evaluate = "_evaluate_distance_vector"}

\* C12 as stated: once process_district has its result raster, with one or more
\* restricted zones it has run Union and RasterizePolygon once each and the result is
\* the ApplyMask output; with none it has run none of Union, RasterizePolygon and
\* ApplyMask and the result is the WeightedCombine output.
C12_MaskAsStated ==
    \A p \in Procs :
        loc[p].result # None =>
            IF loc[p].zones # <<>>
            THEN /\ Count(loc[p].ops, "Union") = 1
                 /\ Count(loc[p].ops, "RasterizePolygon") = 1
                 /\ Count(loc[p].ops, "Apply_mask") = 1
                 /\ loc[p].result = Some(MaskedPath)
            ELSE /\ Count(loc[p].ops, "Union") = 0
                 /\ Count(loc[p].ops, "RasterizePolygon") = 0
                 /\ Count(loc[p].ops, "Apply_mask") = 0
                 /\ loc[p].result = Some(WeightedPath)

\* C12 (amended): once process_district has its result raster, with one or more
\* restricted zones it has run Union once, RasterizePolygon once on that union and
\* ApplyMask once, and the result is the ApplyMask output; with none it has run
\* neither Union nor ApplyMask nor a RasterizePolygon for a mask, and the result is
\* the WeightedCombine output. The only other RasterizePolygon calls are the one each
\* evaluate step of a proximity-scored factor (roads, powerlines) makes.
C12_MaskIffZones ==
    \A p \in Procs :
        loc[p].result # None =>
            /\ Count(loc[p].ops, "Combine_rasters") = 1
            /\ Count(loc[p].ops, "RasterizePolygon") =
                  CountOf(loc[p].ops, "RasterizePolygon", "mask")
                    + Cardinality(ProximityKinds(loc[p].factors))
            /\ IF loc[p].zones # <<>>
               THEN /\ Count(loc[p].ops, "Union") = 1
                    /\ CountOf(loc[p].ops, "RasterizePolygon", "mask") = 1
                    /\ Count(loc[p].ops, "Apply_mask") = 1
                    /\ loc[p].result = Some(MaskedPath)
               ELSE /\ Count(loc[p].ops, "Union") = 0
                    /\ CountOf(loc[p].ops, "RasterizePolygon", "mask") = 0
                    /\ Count(loc[p].ops, "Apply_mask") = 0
                    /\ loc[p].result = Some(WeightedPath)

\* C12 witness: process_district has returned the masked raster of a run with a
\* restricted zone and a proximity-scored factor
C12_Witness ==
    /\ pc[1] = "run_post_chk"
    /\ loc[1].zones # <<>>
    /\ ProximityKinds(loc[1].factors) # {}
    /\ loc[1].result = Some(MaskedPath)
    /\ Count(loc[1].ops, "RasterizePolygon") = 2

\* the orderings of a list
Perms(q) == {[k \in DOMAIN q |-> q[f[k]]] : f \in Permutations(DOMAIN q)}

Names(q) == [k \in DOMAIN q |-> q[k].name]

Kinds(q) == {q[k].kind : k \in DOMAIN q}

\* what the engine evaluates and combines for a request, from validation onwards
Pipeline(req) ==
    LET v == validate(req)[1]
        row == [user_id |-> 7, district |-> v.district_code,
                constraint_factors |-> dumps_constraints(v.constraint_factors),
                suitability_factors |-> dumps_suitability(v.suitability_factors)]
        factors == resolved_factors(build_configs(row))
    IN [evaluated |-> evaluated_factors(factors), weighted |-> weighted_rasters(factors)]

CatalogIndex(name) == CHOOSE k \in DOMAIN all_factors : all_factors[k].name = name

\* C13: scoring factors are evaluated in catalog order, not request order. Every
\* reordering of the scoring factors of a request makes the engine evaluate the same
\* factors in the same order and list the same score rasters in the same order for
\* the weighted combination (with the same weights when no kind is repeated), and
\* that order ascends in the catalog.
C13_CanonicalOrder ==
    (calc.fn = "create" /\ calc.stage = "combined") =>
        /\ \A q \in Perms(calc.request.suitability_factors) :
              LET o == Pipeline([calc.request EXCEPT !.suitability_factors = q]) IN
                /\ Names(o.evaluated) = Names(calc.evaluated)
                /\ [k \in DOMAIN o.weighted |-> o.weighted[k][1]]
                     = [k \in DOMAIN calc.weighted |-> calc.weighted[k][1]]
                /\ Cardinality(Kinds(q)) = Len(q) => o.weighted = calc.weighted
        /\ \A i, j \in DOMAIN calc.evaluated :
              i < j => CatalogIndex(calc.evaluated[i].name) < CatalogIndex(calc.evaluated[j].name)
        /\ Len(calc.weighted) = Len(calc.evaluated)

\* C13 witness: a request listing solar, roads, slope has been resolved and its
\* factors are evaluated and combined as slope, roads, solar
C13_Witness ==
    /\ calc.fn = "create" /\ calc.stage = "combined"
    /\ calc.request.suitability_factors = <<Solar, Roads, Slope>>
    /\ Names(calc.evaluated) = <<"slope", "roads", "solar">>
    /\ calc.weighted = <<<<ScorePath("slope"), 15>>, <<ScorePath("roads"), 15>>,
                         <<ScorePath("solar"), 40>>>>

\* the earliest entry of a kind in a list
FirstOfKind(items, kind) ==
    items[CHOOSE k \in DOMAIN items :
            /\ items[k].kind = kind
            /\ \A j \in DOMAIN items : items[j].kind = kind => k <= j]

KeepsFirst(items, norm) ==
    /\ \A k \in DOMAIN items :
          Cardinality({j \in DOMAIN norm : norm[j].kind = items[k].kind}) = 1
    /\ \A j \in DOMAIN norm :
          /\ norm[j].kind \in Kinds(items)
          /\ norm[j] = FirstOfKind(items, norm[j].kind)

\* C14: de-duplication keeps the first occurrence. The normalised constraint and
\* scoring lists of an accepted request hold exactly one entry per distinct kind of
\* the request, and that entry is the earliest one of the kind in the request.
C14_FirstOccurrenceWins ==
    (calc.fn = "create" /\ calc.stage = "validated") =>
        /\ KeepsFirst(calc.request.constraint_factors, calc.payload.constraint_factors)
        /\ KeepsFirst(calc.request.suitability_factors, calc.payload.suitability_factors)

\* C14 witness: a request with two slope entries and two rivers entries has been
\* normalised to the first of each
C14_Witness ==
    /\ calc.fn = "create" /\ calc.stage = "validated"
    /\ calc.request.suitability_factors = <<Slope2, Solar, Slope>>
    /\ calc.request.constraint_factors = <<Lakes, Rivers, Rivers2>>
    /\ calc.payload.suitability_factors = <<Slope2, Solar>>
    /\ calc.payload.constraint_factors = <<Rivers, Lakes>>

\* the rules [(-inf,b0,p0), (b0,b1,p1), ..., (b(n-1),+inf,pn)] of breakpoints and points
ExpectedRules(bps, pts) ==
    [k \in DOMAIN pts |->
        <<IF k = 1 THEN NegInf ELSE Fin(bps[k - 1]),
          IF k > Len(bps) THEN PosInf ELSE Fin(bps[k]),
          pts[k]>>]

\* C15: for every stored scoring factor with breakpoints [b0..b(n-1)] and points
\* [p0..pn], the Reclassify rules of the engine's factor of that kind are exactly
\* [(-inf,b0,p0), (b0,b1,p1), ..., (b(n-1),+inf,pn)].
C15_RulesFromBreakpoints ==
    (calc.fn = "create" /\ calc.stage \in {"resolved", "combined"}) =>
        LET stored == cfg.suitability_factors.value IN
          \A s \in DOMAIN stored : \A k \in DOMAIN calc.factors :
              calc.factors[k].name = stored[s].kind =>
                  calc.factors[k].evaluate_rules
                    = Some(ExpectedRules(stored[s].breakpoints, stored[s].points))

\* the rules whose half-open interval [low, high) holds the value x
Containing(rules, x) ==
    {k \in DOMAIN rules : BLeq(rules[k][1], Fin(x)) /\ BLt(Fin(x), rules[k][2])}

\* the cells of the input of Reclassify that hold the nodata value
NodataCells == {k \in DOMAIN calc.data : calc.nodata # None /\ calc.data[k] = calc.nodata[1]}

DataCells == DOMAIN calc.data \ NodataCells

C17_FailFast ==
    (calc.fn = "reclassify" /\ calc.done /\ DataCells # {}) =>
        LET vals == {calc.data[k] : k \in DataCells}
            lo == CHOOSE v \in vals : \A w \in vals : v <= w
            hi == CHOOSE v \in vals : \A w \in vals : w <= v
        IN (\E x \in lo..hi : Containing(calc.rules, x) = {})
              => (calc.raised /\ calc.out = None)

\* the inputs with every weight multiplied by c
Scaled(inputs, c) == [k \in DOMAIN inputs |-> <<inputs[k][1], inputs[k][2] * c>>]

\* C18: WeightedCombine normalises the weights. Multiplying every weight by the
\* same positive constant leaves every output cell unchanged, and where all input
\* rasters hold the same value the output holds that value (the effective weights
\* sum to 1).
C18_WeightsNormalised ==
    (calc.fn = "combine" /\ calc.done) =>
        /\ \A c \in 1..MaxScale :
              RPL_Combine_rasters(Scaled(calc.inputs, c), calc.nodata) = calc.out[1]
        /\ \A k \in DOMAIN calc.out[1] :
              (/\ \A i \in DOMAIN calc.inputs : calc.inputs[i][1][k] = calc.inputs[1][1][k]
               /\ ~(calc.nodata # None /\ calc.inputs[1][1][k] = calc.nodata[1]))
                 => calc.out[1][k] = <<calc.inputs[1][1][k], 1>>

\* C18 witness: two rasters with weights 3 and 1 have been combined; a cell holding
\* 10 and 0 has become 30/4 = 15/2, as with the weights 12 and 4
C18_Witness ==
    /\ calc.fn = "combine" /\ calc.done
    /\ Len(calc.inputs) = 2
    /\ calc.inputs[1][2] = 3 /\ calc.inputs[2][2] = 1
    /\ \E k \in DOMAIN calc.out[1] :
          /\ calc.inputs[1][1][k] = 10 /\ calc.inputs[2][1][k] = 0
          /\ calc.out[1][k] = <<15, 2>>
          /\ RPL_Combine_rasters(Scaled(calc.inputs, 4), calc.nodata)[k] = <<15, 2>>

\* cancellation is visible to the monitor: the row is Cancelled or gone
Visible == ~task.exists \/ task.status = CANCELLED

\* the checkpoints of process_district and the factor steps they follow
DistrictChecks == {"pd_chk", "prepare_chk", "restrict_chk", "evaluate_chk"}

CheckAfter == [prepare |-> "prepare_chk", restrict |-> "restrict_chk", evaluate |-> "evaluate_chk"]

\* C19: when cancellation is visible at entry to process_district, or becomes
\* visible while the prepare, restrict or evaluate step of one factor is running,
\* then once that step has completed the next checkpoint makes process_district
\* return None: the running step adds operations for its own factor only, no step
\* of a later factor and none of Union, RasterizePolygon, WeightedCombine or
\* ApplyMask follows, and nothing is reported or recorded on the way out. At entry
\* no primitive operation has run and process_district has reported no progress.
C19_CancelStopsDistrict ==
    [][\A p \in Procs :
         /\ (Visible /\ pc[p] \in DistrictChecks /\ pc'[p] # pc[p]) =>
               /\ pc'[p] = "run_post_chk"
               /\ loc'[p].result = None
               /\ loc'[p].ops = loc[p].ops
               /\ loc'[p].calls = loc[p].calls
               /\ progress' = progress /\ files' = files
               /\ pc[p] = "pd_chk" =>
                     (loc[p].ops = <<>> /\ Marks(loc[p].calls) = <<<<0, "init">>>>)
         /\ (/\ Visible /\ pc[p] \in DOMAIN CheckAfter /\ pc'[p] # pc[p]
             /\ loc[p].i <= Len(loc[p].factors)) =>
               /\ pc'[p] \in {CheckAfter[pc[p]], "record_score", "except"}
               /\ IsPrefix(loc[p].ops, loc'[p].ops)
               /\ \A k \in DOMAIN loc'[p].ops \ DOMAIN loc[p].ops :
                     loc'[p].ops[k].of = loc[p].factors[loc[p].i]
         /\ (Visible /\ pc[p] = "record_score" /\ pc'[p] # pc[p]) =>
               (pc'[p] = "evaluate_chk" /\ loc'[p].ops = loc[p].ops)
         /\ (Visible /\ pc[p] \in DistrictChecks \cup DOMAIN CheckAfter \cup {"record_score"})
               => Visible']_vars

\* C19 witness: the checkpoint after the first prepare step has seen a cancel that
\* arrived while that step was running; process_district has returned None with
\* the second factor unprepared and only the select and the first clip run
C19_Witness ==
    /\ hist.op = "prepare_chk" /\ hist.cancelled = Some(TRUE) /\ hist.flipped
    /\ pc[1] = "run_post_chk"
    /\ loc[1].i = 2 /\ Len(loc[1].factors) >= 2
    /\ Len(loc[1].ops) = 2
    /\ loc[1].result = None

\* C20: when the re-read that follows the Processing write finds the task
\* Cancelled, process_map_task returns: no engine is constructed or run, no progress
\* entry or artifact record is added, the row is left as it is, and the Processing
\* write is the only status write of the invocation.
C20_CancelledOnReload ==
    [][\A p \in Procs :
         (pc[p] = "reload" /\ pc'[p] # "reload" /\ task.exists /\ task.status = CANCELLED)
           => /\ pc'[p] = "done"
              /\ ~loc'[p].engine
              /\ loc'[p].calls = <<>> /\ loc'[p].ops = <<>>
              /\ loc'[p].writes = <<PROCESSING>>
              /\ task' = task
              /\ progress' = progress
              /\ files' = files]_vars

\* C20 witness: the first invocation has returned from the re-read of a task that
\* was cancelled right after the Processing write
C20_Witness ==
    /\ hist.op = "reload"
    /\ pc[1] = "done"
    /\ nRuns = 1
    /\ task.exists /\ task.status = CANCELLED
    /\ loc[1].writes = <<PROCESSING>>
    /\ ~loc[1].engine
    /\ progress = <<>>

\* an invocation that has returned after passing the terminal-state guard
PastGuard(p) == pc[p] = "done" /\ loc[p].writes # <<>>

\* C21: every process_map_task invocation that got past the terminal-state guard
\* has attempted to remove the scratch output directory by the time it returns,
\* whatever the outcome of the run; an invocation that returned at the guard or on
\* a missing task has attempted none.
C21_ScratchRemoved ==
    \A p \in Procs :
        pc[p] = "done" =>
            IF PastGuard(p) THEN loc[p].rmtree_calls > 0 ELSE loc[p].rmtree_calls = 0

\* the catalog kinds of a stored column as the engine gets them: none from a text
\* that does not parse
KindsRead(text) == IF text.valid THEN KnownKinds(text.value) ELSE <<>>

\* C22: when the stored exclusion or scoring text is not valid JSON, the step that
\* parses it does not raise on that account and the engine is constructed with an
\* empty factor list for that side (and the factors of the other side, if that
\* parses); a run on a corrupt exclusion text can still end in Success.
C22_CorruptTextGivesEmptyList ==
    [][\A p \in Procs :
         (pc[p] = "reload" /\ pc'[p] = "progress_init") =>
            /\ loc'[p].engine
            /\ loc'[p].factors =
                  KindsRead(cfg.constraint_factors) \o KindsRead(cfg.suitability_factors)
            /\ ~cfg.constraint_factors.valid =>
                  \A k \in DOMAIN loc'[p].factors :
                     CatalogEntry(loc'[p].factors[k]).method_restricted_zone = "none"
            /\ ~cfg.suitability_factors.valid =>
                  \A k \in DOMAIN loc'[p].factors :
                     CatalogEntry(loc'[p].factors[k]).method_evaluate = "none"]_vars

\* C22 witness: a task whose exclusion text is corrupt has run with the scoring
\* factor alone, without any zone or mask, and is Success
C22_Witness ==
    /\ ~cfg.constraint_factors.valid /\ cfg.suitability_factors.valid
    /\ pc[1] = "done"
    /\ task.status = SUCCESS
    /\ loc[1].factors = <<"slope">>
    /\ loc[1].zones = <<>> /\ ~loc[1].mask
    /\ loc[1].result = Some(WeightedPath)

\* the template the claim describes: the first prepared raster in the order solar,
\* temperature, else a fallback dataset clipped to the boundary
ClaimedTemplate(prepared) ==
    IF "solar" \in prepared THEN "solar"
    ELSE IF "temperature" \in prepared THEN "temperature"
    ELSE "fallback"

\* C23: for every resolved configuration the step that follows the prepare loop
\* obtains a template raster and never raises: the first prepared raster in the
\* order solar, temperature, or the clipped fallback dataset when neither was prepared.
C23_TemplateTotal ==
    [][\A p \in Procs :
         (pc[p] = "template" /\ pc'[p] # "template") =>
            /\ pc'[p] = "restrict"
            /\ loc'[p].template_raster = Some(ClaimedTemplate(loc[p].prepared))]_vars

\* the FactorSpecs of a list whose kind the catalog knows, in list order
Known(specs) == SelectSeq(specs, LAMBDA f : f.kind \in CatalogNames)

InFlight(p) == pc[p] \notin {"idle", "load", "done"}

\* C25: the terminal-state guard does not exclude a second invocation: an
\* invocation that loads the row while another one is in flight passes the guard
\* whenever no terminal status has been written yet, and each of the two then
\* constructs and runs its own engine.
C25_GuardIsNoLock ==
    [][\A p, q \in Procs :
         /\ (/\ p # q /\ InFlight(q) /\ pc[p] = "load" /\ pc'[p] # "load"
             /\ task.exists /\ task.status \notin Terminal)
               => pc'[p] = "mark_processing"
         /\ (/\ p # q /\ InFlight(q) /\ pc[p] = "reload" /\ pc'[p] # "reload"
             /\ task.exists /\ task.status \notin Terminal)
               => (pc'[p] = "except" \/ (pc'[p] = "progress_init" /\ loc'[p].engine))]_vars

\* C25 witness: both invocations have passed the guard, constructed an engine and
\* completed the first primitive of process_district, with the task Processing
C25_Witness ==
    /\ \A p \in Procs :
          /\ pc[p] = "progress_boundary"
          /\ loc[p].engine
          /\ loc[p].ops = <<Op("Select", "district")>>
          /\ loc[p].writes = <<PROCESSING>>
    /\ task.status = PROCESSING

\* C26: every invocation on an existing task that is Pending or Processing
\* returns, and at the step that returns the status of the task is Success, Failure
\* or Cancelled, whatever cancel requests arrive meanwhile.
C26_ReturnsWithTerminalStatus ==
    /\ [][\A p \in Procs :
            (pc[p] # "done" /\ pc'[p] = "done") =>
               (task'.exists /\ task'.status \in Terminal)]_vars
    /\ \A p \in Procs :
          (pc[p] = "load" /\ task.exists /\ task.status \in {PENDING, PROCESSING})
             ~> (pc[p] = "done" /\ task.exists /\ task.status \in Terminal)

\* C26 witness: an invocation whose engine run was cancelled on the way has
\* returned, and the task is Cancelled
C26_Witness ==
    /\ pc[1] = "done"
    /\ loc[1].engine /\ loc[1].returned
    /\ hist.flipped
    /\ task.exists /\ task.status = CANCELLED

NonDecreasing(q) == \A i, j \in DOMAIN q : i < j => q[i].percent <= q[j].percent

\* the entries update_progress appended, in append order
Reported(log) == SelectSeq(log, LAMBDA r : r.error_msg = None)

\* C27 as stated: the percent values of the entries appended in a run, the entry of
\* record_error included, are non-decreasing in append order, start at 0 and never
\* exceed 100.
C27_PercentAsStated ==
    /\ NonDecreasing(progress)
    /\ progress # <<>> => progress[1].percent = 0
    /\ \A k \in DOMAIN progress : progress[k].percent <= 100

\* C27 amended: the entries appended by update_progress have non-decreasing percent
\* values between 0 and 100, and the first update_progress call of a run reports 0
\* (its entry is missing when the insert failed); the entry record_error writes
\* when the run fails is the last one and carries percent 0.
C27_PercentOfReports ==
    /\ NonDecreasing(Reported(progress))
    /\ \A k \in DOMAIN progress : progress[k].percent \in 0..100
    /\ \A p \in Procs :
          /\ NonDecreasing(loc[p].calls)
          /\ loc[p].calls # <<>> => loc[p].calls[1].percent = 0
    /\ \A k \in DOMAIN progress :
          progress[k].error_msg # None => (k = Len(progress) /\ progress[k].percent = 0)

\* C27 witness: a run that failed after the restricted zones were reported: the
\* log ends with the 50 percent entry followed by the error entry at 0 percent
C27_Witness ==
    /\ pc[1] = "done" /\ task.status = FAILURE
    /\ Len(progress) >= 4
    /\ progress[1].percent = 0
    /\ progress[Len(progress) - 1].percent = 50
    /\ progress[Len(progress)].error_msg # None
    /\ progress[Len(progress)].percent = 0

\* C28: a score raster enters the weighted combination only for a kind supplied as
\* a scoring FactorSpec, a restricted zone is made only for a kind supplied as an
\* exclusion FactorSpec, and a kind supplied on both sides is prepared once and
\* enters the combination once.
C28_SidesIndependent ==
    (calc.fn = "engine" /\ calc.stage = "processed") =>
        /\ \A k \in DOMAIN calc.weighted :
              calc.weighted[k][1][2] \in Kinds(calc.configs.suitability_factors)
        /\ \A k \in DOMAIN calc.zones :
              calc.zones[k] \in Kinds(calc.configs.restricted_factors)
        /\ \A i, j \in DOMAIN calc.prepared : calc.prepared[i] = calc.prepared[j] => i = j
        /\ \A i, j \in DOMAIN calc.weighted : calc.weighted[i] = calc.weighted[j] => i = j

\* C29: in every state of an existing task, ended_at is set exactly when the status
\* is Success, Failure or Cancelled.
C29_EndedAtIffTerminal ==
    task.exists => (task.ended_at # None <=> task.status \in Terminal)

\* C30: once process_district has returned a raster, an artifact row tagged "final"
\* points to that raster, with or without an exclusion mask (in runs where no
\* insert of the monitor failed and the task was not deleted).
C30_FinalRecorded ==
    \A p \in Procs :
        (/\ loc[p].result # None
         /\ pc[p] \in {"run_post_chk", "progress_finished", "run_return"}
         /\ nDbFail = 0 /\ task.exists) =>
            \E k \in DOMAIN files :
                /\ files[k].file_type = "final"
                /\ files[k].file_path = loc[p].result[1]

====
